---- MODULE Spec2Model ----
(***************************************************************************)
(* Model of the JEEVibe IIDP engine                                        *)
(* (docs/engine/iidp_implementation_v4_CALIBRATED.py).                     *)
(*                                                                         *)
(* Numbers.  The program computes in floating point.  Here every real      *)
(* quantity (theta, b, a, c, SE, weights, priorities) is an integer count  *)
(* of thousandths (MILLI), probabilities and Fisher information are        *)
(* counts of 1/PSCALE, accuracies are exact fractions <<num, den>>, and    *)
(* time is counted in whole days.                                          *)
(*                                                                         *)
(* Topic ids.  A topic id "physics_mechanics_kinematics" is the pair       *)
(* <<"physics", "mechanics_kinematics">>, so that the prefix test of       *)
(* get_subject_from_topic is a test and not a table.                       *)
(***************************************************************************)
EXTENDS Integers, Sequences, FiniteSets, TLC

\* ------------------------------------------------------------------------
\* Number representation
\* ------------------------------------------------------------------------
MILLI == 1000
PSCALE == 10000

\* Python's None, in the three shapes a value it stands in for can have
NoneDoc == [none |-> TRUE]
NoneInt == -1
NoneSeq == <<>>
NoTopic == <<"", "">>

Abs(x) == IF x < 0 THEN -x ELSE x
Max2(x, y) == IF x >= y THEN x ELSE y
Min2(x, y) == IF x <= y THEN x ELSE y

\* Python's float division, rounded toward zero on the scaled integers.
Quot(n, d) == IF n >= 0 THEN n \div d ELSE -((-n) \div d)

\* F(v) with v evaluated once, however often F uses it.
Bind(v, F(_)) == CHOOSE r \in {F(w) : w \in {v}} : TRUE

\* The list s with every element evaluated.
Force(s) == SelectSeq(s, LAMBDA x : TRUE)

RECURSIVE Gcd(_, _)
Gcd(m, n) == IF n = 0 THEN m ELSE Gcd(n, m % n)

\* The exact fraction n/d in lowest terms.
Frac(n, d) == LET g == Gcd(n, d) IN <<n \div g, d \div g>>

RECURSIVE SumSeq(_)
SumSeq(s) == IF s = <<>> THEN 0 ELSE Head(s) + SumSeq(Tail(s))

\* s[:n] that keeps one element too many
Prefix_one_more(s, n) == SubSeq(s, 1, Min2(n + 1, Len(s)))

\* s[:n]
Prefix(s, n) == SubSeq(s, 1, Min2(n, Len(s)))
Suffix(s, n) == SubSeq(s, Max2(1, Len(s) - n + 1), Len(s))

Range(s) == {s[i] : i \in 1..Len(s)}

\* ------------------------------------------------------------------------
\* Configuration constants
\* ------------------------------------------------------------------------
THETA_MIN == -3000
THETA_MAX == 3000
BASE_LEARNING_RATE == 300
LEARNING_RATE_DECAY == 20
SE_REDUCTION_RATE == 950
SE_FLOOR == 100
SE_CEILING == 600
EXPLORATION_END_QUIZ == 14
EXPLORATION_START_RATIO == 600
EXPLORATION_END_RATIO == 300
QUIZ_LENGTH == 10
WEAK_TOPIC_COUNT_EXPLOITATION == 7
MAINTENANCE_COUNT_EXPLOITATION == 2
REVIEW_COUNT == 1
OPTIMAL_DIFFICULTY_RANGE == 500
EXPLORATION_TARGET_DIFFICULTY == 900
RECENT_QUESTIONS_WINDOW_DAYS == 30
CIRCUIT_BREAKER_THRESHOLD == 5
RECOVERY_EASY_MIN == 400
RECOVERY_EASY_MAX == 700
RECOVERY_MEDIUM_MIN == 800
RECOVERY_MEDIUM_MAX == 1100

\* JEE_TOPIC_WEIGHTS, in the order of the table (a dict keeps insertion order).
JEE_TOPIC_TABLE ==
    << <<"physics", "mechanics_newtons_laws">>, <<"physics", "mechanics_work_energy">>,
       <<"physics", "mechanics_kinematics">>, <<"physics", "mechanics_rotational">>,
       <<"physics", "mechanics_gravitation">>, <<"physics", "mechanics_shm">>,
       <<"physics", "electrostatics_coulomb">>, <<"physics", "current_electricity">>,
       <<"physics", "magnetism_emi">>, <<"physics", "ac_circuits">>,
       <<"physics", "modern_photoelectric">>, <<"physics", "modern_atoms">>,
       <<"chemistry", "physical_thermodynamics">>, <<"chemistry", "physical_equilibrium">>,
       <<"chemistry", "physical_kinetics">>, <<"chemistry", "physical_electrochemistry">>,
       <<"chemistry", "organic_nomenclature">>, <<"chemistry", "organic_reactions">>,
       <<"chemistry", "organic_mechanisms">>, <<"chemistry", "inorganic_coordination">>,
       <<"chemistry", "inorganic_periodicity">>,
       <<"mathematics", "calculus_limits">>, <<"mathematics", "calculus_derivatives">>,
       <<"mathematics", "calculus_integrals">>,
       <<"mathematics", "calculus_differential_equations">>,
       <<"mathematics", "algebra_quadratic">>, <<"mathematics", "algebra_sequences">>,
       <<"mathematics", "algebra_complex">>, <<"mathematics", "coord_geom_circle">>,
       <<"mathematics", "coord_geom_parabola">> >>

JEE_WEIGHT_MEDIUM ==
    { <<"physics", "mechanics_gravitation">>, <<"physics", "mechanics_shm">>,
      <<"physics", "ac_circuits">>, <<"chemistry", "physical_electrochemistry">>,
      <<"chemistry", "organic_nomenclature">>, <<"chemistry", "organic_mechanisms">>,
      <<"chemistry", "inorganic_periodicity">>,
      <<"mathematics", "calculus_differential_equations">>,
      <<"mathematics", "algebra_quadratic">>, <<"mathematics", "algebra_sequences">>,
      <<"mathematics", "coord_geom_parabola">> }

JEE_WEIGHT_LOW ==
    { <<"physics", "modern_photoelectric">>, <<"physics", "modern_atoms">>,
      <<"chemistry", "inorganic_coordination">> }

\* JEE_TOPIC_WEIGHTS.get(topic, dflt)
JEE_TOPIC_WEIGHTS_get(topic, dflt) ==
    IF topic \in JEE_WEIGHT_LOW THEN 300
    ELSE IF topic \in JEE_WEIGHT_MEDIUM THEN 600
    ELSE IF topic \in Range(JEE_TOPIC_TABLE) THEN 1000
    ELSE dflt

\* TOPIC_PREREQUISITE_DEPTH.get(topic, 1)
TOPIC_PREREQUISITE_DEPTH_get(topic) ==
    IF topic = <<"physics", "mechanics_kinematics">> THEN 0
    ELSE IF topic = <<"physics", "mechanics_newtons_laws">> THEN 1
    ELSE IF topic = <<"physics", "mechanics_work_energy">> THEN 2
    ELSE IF topic = <<"physics", "mechanics_rotational">> THEN 3
    ELSE 1

get_subject_from_topic(topic) ==
    IF topic[1] = "physics" THEN "physics"
    ELSE IF topic[1] = "chemistry" THEN "chemistry"
    ELSE IF topic[1] = "mathematics" THEN "mathematics"
    ELSE "unknown"

\* ------------------------------------------------------------------------
\* Core IRT functions
\* ------------------------------------------------------------------------
\* v * v in 1/PSCALE
Square(v) == Bind(v, LAMBDA w : (w * w) \div PSCALE)

\* The Taylor polynomial of exp(y) of degree 5, y and result in 1/PSCALE
ExpTaylor(y) ==
    Bind(y, LAMBDA w :
        PSCALE + Quot(w * (PSCALE + Quot(w * (PSCALE + Quot(w * (PSCALE
            + Quot(w * (PSCALE + Quot(w, 5)), 4 * PSCALE)), 3 * PSCALE)), 2 * PSCALE)), PSCALE))

\* exp(x) for x <= 0, x in thousandths, result in 1/PSCALE: the Taylor
\* polynomial of exp(x/16), squared four times.
ExpNeg(x) == Square(Square(Square(Square(Max2(0, ExpTaylor(Quot(x * 10, 16)))))))

\* 1 / (1 + exp(x)), in 1/PSCALE
Logistic(x) ==
    Bind(x, LAMBDA w :
        IF w <= 0 THEN (PSCALE * PSCALE) \div (PSCALE + ExpNeg(w))
        ELSE Bind(ExpNeg(-w), LAMBDA e : (PSCALE * e) \div (PSCALE + e)))

\* -a * (theta - b), in thousandths
Exponent(theta, difficulty_b, discrimination_a) ==
    Quot(-(discrimination_a * (theta - difficulty_b)), MILLI)

calculate_probability_3PL(theta, difficulty_b, discrimination_a, guessing_c) ==
    Bind(Exponent(theta, difficulty_b, discrimination_a), LAMBDA exponent :
        LET c == guessing_c * (PSCALE \div MILLI)
        IN  IF exponent > 20 * MILLI THEN c
            ELSE IF exponent < -20 * MILLI THEN PSCALE
            ELSE Max2(0, Min2(PSCALE, c + Quot((PSCALE - c) * Logistic(exponent), PSCALE))))

\* a^2 * P'^2 / (P * Q), in 1/PSCALE; a in thousandths, P and P' in 1/PSCALE
FisherRatio(discrimination_a, P, P_prime) ==
    Bind(<<P, P_prime>>, LAMBDA v :
        IF v[1] > PSCALE \div 100 /\ v[1] < (99 * PSCALE) \div 100
        THEN Quot(Quot(Quot(discrimination_a * discrimination_a, MILLI)
                         * Quot(v[2] * v[2], PSCALE), MILLI) * PSCALE,
                  Quot(v[1] * (PSCALE - v[1]), PSCALE))
        ELSE 0)

calculate_fisher_information(theta, difficulty_b, discrimination_a, guessing_c) ==
    Bind(Exponent(theta, difficulty_b, discrimination_a), LAMBDA exponent :
        LET c == guessing_c * (PSCALE \div MILLI)
            \* exp_val / (1 + exp_val)^2 = L * (1 - L) for L = 1 / (1 + exp_val)
            P_prime == Bind(Logistic(exponent), LAMBDA L :
                           Quot(Quot(discrimination_a * (PSCALE - c), MILLI)
                                  * Quot(L * (PSCALE - L), PSCALE), PSCALE))
        IN  IF Abs(exponent) > 20 * MILLI THEN 0
            ELSE FisherRatio(discrimination_a,
                     calculate_probability_3PL(theta, difficulty_b, discrimination_a, guessing_c),
                     P_prime))

\* bound_theta with the upper bound left out
bound_theta_no_upper(theta) == Max2(THETA_MIN, theta)

bound_theta(theta) == Max2(THETA_MIN, Min2(THETA_MAX, theta))


\* ------------------------------------------------------------------------
\* Initial assessment processing
\* ------------------------------------------------------------------------
\* accuracy is the exact fraction <<correct, total>>
accuracy_to_theta_mapping(accuracy, num_questions) ==
    LET k == accuracy[1]
        n == accuracy[2]
    IN  IF k = n THEN (IF num_questions >= 5 THEN 2000 ELSE 1500)
        ELSE IF k = 0 THEN (IF num_questions >= 5 THEN -2000 ELSE -1500)
        ELSE IF 100 * k < 20 * n THEN -2500
        ELSE IF 100 * k < 40 * n THEN -1500
        ELSE IF 100 * k < 60 * n THEN -500
        ELSE IF 100 * k < 75 * n THEN 500
        ELSE IF 100 * k < 90 * n THEN 1500
        ELSE 2500

\* floor(sqrt(m))
Isqrt(m) == CHOOSE r \in 0..MILLI : r * r <= m /\ (r + 1) * (r + 1) > m

calculate_initial_SE_unclamped(num_questions, accuracy) ==
    LET base_SE == Isqrt((MILLI * MILLI) \div num_questions)
        information_penalty == MILLI + Quot(Abs(2 * accuracy[1] - accuracy[2]) * MILLI, 2 * accuracy[2])
    IN  Quot(base_SE * information_penalty, MILLI)

calculate_initial_SE(num_questions, accuracy) ==
    Min2(SE_CEILING, Max2(SE_FLOOR, calculate_initial_SE_unclamped(num_questions, accuracy)))

\* The keys of a stored map, in the order a read of the document lists them
\* (sorted by key).
TOPIC_KEY_ORDER ==
    << <<"chemistry", "physical_equilibrium">>, <<"chemistry", "physical_thermodynamics">>,
       <<"mathematics", "calculus_limits">>,
       <<"physics", "mechanics_kinematics">>, <<"physics", "mechanics_newtons_laws">>,
       <<"physics", "modern_atoms">> >>

Keys(map) == SelectSeq(TOPIC_KEY_ORDER, LAMBDA t : t \in DOMAIN map)

calculate_weighted_overall_theta(theta_estimates) ==
    LET ks == Keys(theta_estimates)
        weighted_sum == SumSeq([i \in 1..Len(ks) |->
                            theta_estimates[ks[i]].theta * JEE_TOPIC_WEIGHTS_get(ks[i], 500)])
        total_weight == SumSeq([i \in 1..Len(ks) |-> JEE_TOPIC_WEIGHTS_get(ks[i], 500)])
    IN  IF total_weight > 0 THEN Quot(weighted_sum, total_weight) ELSE 0

SUBJECTS == {"physics", "chemistry", "mathematics"}

calculate_subject_balance_initial(theta_estimates) ==
    LET ks == Keys(theta_estimates)
        subject_counts == [s \in SUBJECTS |->
            SumSeq([i \in 1..Len(ks) |->
                IF get_subject_from_topic(ks[i]) = s THEN theta_estimates[ks[i]].attempts ELSE 0])]
        total == subject_counts["physics"] + subject_counts["chemistry"] + subject_counts["mathematics"]
    IN  IF total = 0 THEN [s \in SUBJECTS |-> MILLI \div 3]
        ELSE [s \in SUBJECTS |-> (subject_counts[s] * MILLI) \div total]


\* ------------------------------------------------------------------------
\* Persistent state (the Firestore collections) and the clock
\* ------------------------------------------------------------------------
VARIABLES
    questions,        \* collection 'questions': the item catalog, in document order
    student,          \* document students/<student_id>, NoneDoc before the assessment
    responses,        \* collection student_responses/<student_id>/responses, oldest first
    quiz_doc,         \* the document last written to quizzes/<student_id>/quizzes
    system_events,    \* number of documents in collection 'system_events'
    now,              \* datetime.utcnow(), in days
    returned,         \* what the last call returned to its caller
    calls             \* the calls under way, each with its position and locals

vars == <<questions, student, responses, quiz_doc, system_events, now, returned, calls>>

Question(id, topic, b, a, c) ==
    [question_id |-> id, topic |-> topic, difficulty_b |-> b,
     discrimination_a |-> a, guessing_c |-> c]

\* db.collection('questions').document(question_id).get().to_dict()
get_question(question_id) ==
    CHOOSE q \in Range(questions) : q.question_id = question_id

QuestionIds == {questions[i].question_id : i \in 1..Len(questions)}

\* ------------------------------------------------------------------------
\* process_initial_assessment
\* ------------------------------------------------------------------------
\* theta_estimates of process_initial_assessment for the responses rs
\* (each [question_id, is_correct])
InitialThetaEstimates(rs) ==
    LET topicOf(i) == get_question(rs[i].question_id).topic
        topics == {topicOf(i) : i \in 1..Len(rs)}
        total_count(t) == Cardinality({i \in 1..Len(rs) : topicOf(i) = t})
        correct_count(t) == Cardinality({i \in 1..Len(rs) : topicOf(i) = t /\ rs[i].is_correct})
    IN  [t \in topics |->
            LET accuracy == Frac(correct_count(t), total_count(t))
                initial_theta == accuracy_to_theta_mapping(accuracy, total_count(t))
            IN  [theta |-> bound_theta(initial_theta),
                 confidence_SE |-> calculate_initial_SE(total_count(t), accuracy),
                 attempts |-> total_count(t),
                 accuracy |-> accuracy]]

process_initial_assessment(rs) ==
    LET theta_estimates == InitialThetaEstimates(rs)
        student_profile ==
            [theta_by_topic |-> theta_estimates,
             overall_theta |-> calculate_weighted_overall_theta(theta_estimates),
             assessment_completed_at |-> now,
             completed_quiz_count |-> 0,
             learning_phase |-> "exploration",
             phase_switched_at_quiz |-> NoneInt,
             total_questions_solved |-> Len(rs),
             topic_attempt_counts |-> [t \in DOMAIN theta_estimates |-> theta_estimates[t].attempts],
             subject_balance |-> calculate_subject_balance_initial(theta_estimates),
             last_quiz_completed_at |-> NoneInt]
    IN  /\ \A i \in 1..Len(rs) : rs[i].question_id \in QuestionIds
        \* subject_counts[subject] raises KeyError for any other subject
        /\ \A t \in DOMAIN theta_estimates : get_subject_from_topic(t) \in SUBJECTS
        /\ student' = student_profile
        /\ returned' = [op |-> "process_initial_assessment", value |-> student_profile]
        /\ UNCHANGED <<questions, responses, quiz_doc, system_events, now, calls>>

\* ------------------------------------------------------------------------
\* update_theta_after_response
\* ------------------------------------------------------------------------
\* get_theta_for_untested_topic whose record starts at attempts 1
get_theta_for_untested_topic_one_attempt(topic, student_data) ==
    LET subject == get_subject_from_topic(topic)
        subject_topics == SelectSeq(Keys(student_data.theta_by_topic),
                                    LAMBDA t : get_subject_from_topic(t) = subject)
        subject_thetas == [i \in 1..Len(subject_topics) |->
                              student_data.theta_by_topic[subject_topics[i]].theta]
        estimated_theta == IF Len(subject_topics) > 0
                           THEN Quot(SumSeq(subject_thetas), Len(subject_thetas))
                           ELSE student_data.overall_theta
    IN  [theta |-> estimated_theta,
         confidence_SE |-> SE_CEILING,
         attempts |-> 1,
         accuracy |-> NoneSeq]

get_theta_for_untested_topic(topic, student_data) ==
    LET subject == get_subject_from_topic(topic)
        subject_topics == SelectSeq(Keys(student_data.theta_by_topic),
                                    LAMBDA t : get_subject_from_topic(t) = subject)
        subject_thetas == [i \in 1..Len(subject_topics) |->
                              student_data.theta_by_topic[subject_topics[i]].theta]
        estimated_theta == IF Len(subject_topics) > 0
                           THEN Quot(SumSeq(subject_thetas), Len(subject_thetas))
                           ELSE student_data.overall_theta
    IN  [theta |-> estimated_theta,
         confidence_SE |-> SE_CEILING,
         attempts |-> 0,
         accuracy |-> NoneSeq]

\* new_SE of update_theta_after_response
ReducedSE(current_SE) == Max2(SE_FLOOR, Quot(current_SE * SE_REDUCTION_RATE, MILLI))

\* Put key k with value v into a stored map.
MapPut(map, k, v) == [x \in DOMAIN map \cup {k} |-> IF x = k THEN v ELSE map[x]]

\* MapIncrement that sets the counter to 1
MapIncrement_set_one(map, k) == MapPut(map, k, 1)

\* firestore.Increment(1) on the field k of a stored map
MapIncrement(map, k) == MapPut(map, k, IF k \in DOMAIN map THEN map[k] + 1 ELSE 1)

\* The mean of the old accuracy and the new observation, whatever the attempts
NewAccuracy_unweighted(topic_theta, is_correct) ==
    IF topic_theta.accuracy # NoneSeq
    THEN LET old == topic_theta.accuracy
         IN  Frac(old[1] + (IF is_correct THEN old[2] ELSE 0), old[2] * 2)
    ELSE IF is_correct THEN <<1, 1>> ELSE <<0, 1>>

\* updated_topic_theta['accuracy'] (lines 554-560): the running mean, or the
\* observation itself when the record has no accuracy yet.
NewAccuracy(topic_theta, is_correct) ==
    IF topic_theta.accuracy # NoneSeq
    THEN LET old == topic_theta.accuracy
             attempts == topic_theta.attempts
         IN  Frac(old[1] * attempts + (IF is_correct THEN old[2] ELSE 0),
                  old[2] * (attempts + 1))
    ELSE IF is_correct THEN <<1, 1>> ELSE <<0, 1>>

\* What update_theta_after_response computes (lines 500-582) from the profile
\* student_data it has read: the topic, the topic's new record, the new
\* theta, and the response it logs.
ThetaUpdate(student_data, question_id, is_correct) ==
    LET question_data == get_question(question_id)
        topic == question_data.topic
        topic_theta == IF topic \notin DOMAIN student_data.theta_by_topic
                       THEN get_theta_for_untested_topic(topic, student_data)
                       ELSE student_data.theta_by_topic[topic]
        current_theta == topic_theta.theta
        current_SE == topic_theta.confidence_SE
        attempts == topic_theta.attempts
        P_correct == calculate_probability_3PL(current_theta, question_data.difficulty_b,
                         question_data.discrimination_a, question_data.guessing_c)
        learning_rate == Quot(BASE_LEARNING_RATE * MILLI, MILLI + LEARNING_RATE_DECAY * attempts)
        delta == IF is_correct THEN Quot(learning_rate * (PSCALE - P_correct), PSCALE)
                 ELSE -Quot(learning_rate * P_correct, PSCALE)
        new_theta == bound_theta(current_theta + delta)
        new_SE == ReducedSE(current_SE)
        new_accuracy == NewAccuracy(topic_theta, is_correct)
        updated_topic_theta ==
            [theta |-> new_theta, confidence_SE |-> new_SE,
             attempts |-> attempts + 1, accuracy |-> new_accuracy]
        response_data ==
            [question_id |-> question_id, topic |-> topic, is_correct |-> is_correct,
             theta_before |-> current_theta, theta_after |-> new_theta, theta_delta |-> delta,
             confidence_SE_before |-> current_SE, confidence_SE_after |-> new_SE,
             answered_at |-> now]
    IN  [topic |-> topic, updated_topic_theta |-> updated_topic_theta,
         new_theta |-> new_theta, response_data |-> response_data]

\* student_ref.update of lines 562-566 on the stored profile: the topic's
\* record is replaced, the two counters are incremented in place.
ProfileUpdate(stored, topic, updated_topic_theta) ==
    [stored EXCEPT
        !.theta_by_topic = MapPut(@, topic, updated_topic_theta),
        !.topic_attempt_counts = MapIncrement(@, topic),
        !.total_questions_solved = @ + 1]

\* The call run from its first line to its last with no other call in between.
update_theta_after_response(question_id, is_correct) ==
    /\ question_id \in QuestionIds
    /\ student # NoneDoc
    /\ \E u \in {ThetaUpdate(student, question_id, is_correct)} :
          /\ student' = ProfileUpdate(student, u.topic, u.updated_topic_theta)
          /\ responses' = Append(responses, u.response_data)
          /\ returned' = [op |-> "update_theta_after_response", value |-> u.new_theta]
    /\ UNCHANGED <<questions, quiz_doc, system_events, now, calls>>

\* The calls of update_theta_after_response that can be under way at once.
Calls == {1, 2}

\* A call under way: where it stands, its arguments, and the profile it read.
IdleCall == [pc |-> "idle"]

\* Lines 499-513: the call reads the question and the profile.
ReadProfile(c, question_id, is_correct) ==
    /\ calls[c].pc = "idle"
    /\ question_id \in QuestionIds
    /\ student # NoneDoc
    /\ calls' = [calls EXCEPT ![c] = [pc |-> "read", question_id |-> question_id,
                                       is_correct |-> is_correct, student_data |-> student]]
    /\ UNCHANGED <<questions, student, responses, quiz_doc, system_events, now, returned>>

\* Lines 515-566: the call computes from the profile it read and updates the
\* stored profile.
WriteProfile(c) ==
    /\ calls[c].pc = "read"
    /\ \E u \in {ThetaUpdate(calls[c].student_data, calls[c].question_id, calls[c].is_correct)} :
          student' = ProfileUpdate(student, u.topic, u.updated_topic_theta)
    /\ calls' = [calls EXCEPT ![c].pc = "updated"]
    /\ UNCHANGED <<questions, responses, quiz_doc, system_events, now, returned>>

\* Lines 568-586: the call adds the response to the log and returns.
LogResponse(c) ==
    /\ calls[c].pc = "updated"
    /\ \E u \in {ThetaUpdate(calls[c].student_data, calls[c].question_id, calls[c].is_correct)} :
          /\ responses' = Append(responses, u.response_data)
          /\ returned' = [op |-> "update_theta_after_response", value |-> u.new_theta]
    /\ calls' = [calls EXCEPT ![c].pc = "returned"]
    /\ UNCHANGED <<questions, student, quiz_doc, system_events, now>>

\* The call ends at a storage call that raises (document reads of lines 502
\* and 513, update of line 562, add of line 584): nothing catches the
\* exception, and what was written before stays written.
RaiseInCall(c) ==
    /\ calls[c].pc \in {"read", "updated"}
    /\ calls' = [calls EXCEPT ![c].pc = "raised"]
    /\ returned' = [op |-> "update_theta_after_response", raised |-> TRUE]
    /\ UNCHANGED <<questions, student, responses, quiz_doc, system_events, now>>


\* ------------------------------------------------------------------------
\* Helpers of quiz generation
\* ------------------------------------------------------------------------
Reverse(s) == [i \in 1..Len(s) |-> s[Len(s) + 1 - i]]

\* sorted(pairs, key=lambda x: x[2]): ascending and stable
SortedByKey(pairs) ==
    Bind(Force(pairs), LAMBDA ps :
        LET n == Len(ps)
            \* the place of ps[i] in the sorted list
            place(i) == Cardinality({j \in 1..n : ps[j][2] < ps[i][2]})
                        + Cardinality({j \in 1..i : ps[j][2] = ps[i][2]})
        IN  Bind(Force([i \in 1..n |-> place(i)]), LAMBDA places :
                Force([k \in 1..n |-> ps[CHOOSE i \in 1..n : places[i] = k]])))

\* sorted(pairs, key=lambda x: x[2], reverse=True): descending and stable
SortedByKeyReverse(pairs) ==
    Bind(Force(pairs), LAMBDA ps :
        Bind(Force(SortedByKey([i \in 1..Len(ps) |-> <<ps[i][1], -ps[i][2]>>])), LAMBDA srt :
            [i \in 1..Len(srt) |-> <<srt[i][1], -srt[i][2]>>]))

Firsts(pairs) == Bind(Force(pairs), LAMBDA ps : Force([i \in 1..Len(ps) |-> ps[i][1]]))

\* random.sample(population, k): every ordered choice of k distinct elements
RECURSIVE random_sample(_, _)
random_sample(population, k) ==
    IF k = 0 THEN {<<>>}
    ELSE UNION {{<<x>> \o r : r \in random_sample(population \ {x}, k - 1)} : x \in population}

\* get_recent_questions with a window of 7 days whatever days is
get_recent_questions_week(days) ==
    {responses[i].question_id : i \in {j \in 1..Len(responses) : responses[j].answered_at >= now - 7}}

\* The responses answered at or after now - days, as question ids.
get_recent_questions(days) ==
    {responses[i].question_id : i \in {j \in 1..Len(responses) : responses[j].answered_at >= now - days}}

\* ------------------------------------------------------------------------
\* Circuit breaker
\* ------------------------------------------------------------------------
\* ConsecutiveFailures without the break at the first correct answer
ConsecutiveFailures_no_break(responses_list) ==
    Cardinality({i \in 1..Len(responses_list) : ~responses_list[i].is_correct})

\* consecutive_failures of check_circuit_breaker, responses_list newest first
RECURSIVE ConsecutiveFailures(_)
ConsecutiveFailures(responses_list) ==
    IF responses_list = <<>> THEN 0
    ELSE IF ~Head(responses_list).is_correct THEN 1 + ConsecutiveFailures(Tail(responses_list))
    ELSE 0

\* order_by('answered_at', DESCENDING).limit(10); the log is kept oldest first,
\* its timestamps (of microsecond resolution in the program) increasing.
LastTenNewestFirst == Reverse(Suffix(responses, 10))

\* check_circuit_breaker that stays off for the call after a recovery quiz
check_circuit_breaker_cooldown ==
    LET responses_list == LastTenNewestFirst
    IN  IF Len(responses_list) < CIRCUIT_BREAKER_THRESHOLD THEN FALSE
        ELSE /\ ConsecutiveFailures(responses_list) >= CIRCUIT_BREAKER_THRESHOLD
             /\ student # NoneDoc
             /\ student.learning_phase # "recovery"

check_circuit_breaker ==
    LET responses_list == LastTenNewestFirst
    IN  IF Len(responses_list) < CIRCUIT_BREAKER_THRESHOLD THEN FALSE
        ELSE ConsecutiveFailures(responses_list) >= CIRCUIT_BREAKER_THRESHOLD

\* The possible results of select_questions_by_difficulty_range: lists of questions.
select_questions_by_difficulty_range(topic, difficulty_min, difficulty_max, count, recent_questions, discrimination_min) ==
    LET inRange == {q \in Range(questions) :
                        /\ q.topic = topic
                        /\ q.difficulty_b >= difficulty_min
                        /\ q.difficulty_b <= difficulty_max}
        strict == {q \in inRange : /\ q.question_id \notin recent_questions
                                   /\ q.discrimination_a >= discrimination_min}
        candidates == IF strict = {}
                      THEN {q \in Range(questions) :
                                q.topic = topic /\ q.question_id \notin recent_questions}
                      ELSE strict
    IN  random_sample(candidates, Min2(count, Cardinality(candidates)))

\* The possible results of get_previously_correct_question: a question or NoneDoc.
get_previously_correct_question(recent_questions, from_topics) ==
    LET cutoff_start == now - 14
        cutoff_end == now - 7
        candidates == {i \in 1..Len(responses) :
                          /\ responses[i].is_correct
                          /\ responses[i].answered_at >= cutoff_start
                          /\ responses[i].answered_at <= cutoff_end
                          /\ responses[i].topic \in from_topics
                          /\ responses[i].question_id \notin recent_questions}
    IN  IF candidates = {} THEN {NoneDoc}
        ELSE {get_question(responses[i].question_id) : i \in candidates}

\* ------------------------------------------------------------------------
\* Interleaving
\* ------------------------------------------------------------------------
\* A quiz under construction is a list of entries [question, slot]: the
\* question dict and the slot of the composition it was selected for.
Entry(q, slot) == [question |-> q, slot |-> slot]
Entries(qs, slot) == [i \in 1..Len(qs) |-> Entry(qs[i], slot)]

RemoveAt(s, i) == SubSeq(s, 1, i - 1) \o SubSeq(s, i + 1, Len(s))

\* The choice of the loop of interleave_questions_by_topic given the topics
\* that still have questions and the topic emitted last (NoTopic at the start).
InterleaveAvailable(remaining_topics, last_topic) ==
    LET available == remaining_topics \ {last_topic}
    IN  IF available = {} THEN remaining_topics ELSE available

\* topic_groups[t].pop() in place of pop(0): the last question of the group
GroupHead_last(topics, rest, k) ==
    \A j \in (k + 1)..Len(rest) : topics[rest[j]] # topics[rest[k]]

\* rest[k] is the question topic_groups[t].pop(0) takes for its topic t: the
\* first of the group among the questions not yet emitted.
GroupHead(topics, rest, k) ==
    \A j \in 1..(k - 1) : topics[rest[j]] # topics[rest[k]]

\* The concatenation of lists[i..], in order.
RECURSIVE Flatten(_, _)
Flatten(lists, i) ==
    IF i > Len(lists) THEN <<>> ELSE lists[i] \o Flatten(lists, i + 1)

\* Every order in which interleave_questions_by_topic can emit its input,
\* over its random choices, listed once each: topics[i] is the topic of the
\* i-th input question, rest the positions not yet emitted, in input order.
RECURSIVE InterleaveFrom(_, _, _)
InterleaveFrom(topics, rest, last_topic) ==
    IF rest = <<>> THEN << <<>> >>
    ELSE LET remaining_topics == {topics[rest[k]] : k \in 1..Len(rest)}
             available == InterleaveAvailable(remaining_topics, last_topic)
             \* the position topic_groups[t].pop(0) takes, for each topic t
             \* random.choice(available) can return
             heads == SelectSeq([k \in 1..Len(rest) |-> k], LAMBDA k :
                          /\ topics[rest[k]] \in available
                          /\ GroupHead(topics, rest, k))
         IN  Bind(heads, LAMBDA hs :
                 Bind(Force([h \in 1..Len(hs) |->
                         Bind(InterleaveFrom(topics, RemoveAt(rest, hs[h]), topics[rest[hs[h]]]),
                              LAMBDA tails :
                                 Force([i \in 1..Len(tails) |-> <<rest[hs[h]]>> \o tails[i]]))]),
                      LAMBDA branches : Flatten(branches, 1)))

\* Every list interleave_questions_by_topic can return.
interleave_questions_by_topic(entries) ==
    Bind(Force(entries), LAMBDA es :
        Bind(Force([i \in 1..Len(es) |-> es[i].question.topic]), LAMBDA topics :
            Bind(InterleaveFrom(topics, Force([i \in 1..Len(es) |-> i]), NoTopic), LAMBDA orders :
                {Force([k \in 1..Len(es) |-> es[orders[o][k]]]) : o \in 1..Len(orders)})))


\* ------------------------------------------------------------------------
\* Item selector and review selector
\* ------------------------------------------------------------------------
\* What a second loop over questions_query finds: Query.stream() is a
\* generator, and the first loop has run it to its end.
StreamAfterIteration(stream) == SubSeq(stream, Len(stream) + 1, Len(stream))

\* min(scored, key=...) in place of max
FirstMin(pairs) ==
    LET i == CHOOSE k \in 1..Len(pairs) :
                 /\ \A j \in 1..Len(pairs) : pairs[j][2] >= pairs[k][2]
                 /\ \A j \in 1..(k - 1) : pairs[j][2] > pairs[k][2]
    IN  pairs[i][1]

\* max(scored, key=...): the first element of the greatest key
FirstMax(pairs) ==
    LET i == CHOOSE k \in 1..Len(pairs) :
                 /\ \A j \in 1..Len(pairs) : pairs[j][2] <= pairs[k][2]
                 /\ \A j \in 1..(k - 1) : pairs[j][2] < pairs[k][2]
    IN  pairs[i][1]

\* select_optimal_question_IRT without the filter "not recent"
select_optimal_question_IRT_recent_allowed(topic, target_theta, recent_questions, discrimination_min) ==
    LET questions_query == SelectSeq(questions, LAMBDA q : q.topic = topic)
        strict == SelectSeq(questions_query, LAMBDA q :
                      /\ ~(q.discrimination_a < discrimination_min)
                      /\ ~(Abs(q.difficulty_b - target_theta) > OPTIMAL_DIFFICULTY_RANGE))
        relaxed == StreamAfterIteration(questions_query)
        candidates == IF Len(strict) = 0 THEN relaxed ELSE strict
        scored == [i \in 1..Len(candidates) |->
                      <<candidates[i],
                        calculate_fisher_information(target_theta, candidates[i].difficulty_b,
                            candidates[i].discrimination_a, candidates[i].guessing_c)>>]
    IN  IF Len(candidates) = 0 THEN NoneDoc ELSE FirstMax(scored)

\* The question select_optimal_question_IRT returns, or NoneDoc.
select_optimal_question_IRT(topic, target_theta, recent_questions, discrimination_min) ==
    LET questions_query == SelectSeq(questions, LAMBDA q : q.topic = topic)
        strict == SelectSeq(questions_query, LAMBDA q :
                      /\ q.question_id \notin recent_questions
                      /\ ~(q.discrimination_a < discrimination_min)
                      /\ ~(Abs(q.difficulty_b - target_theta) > OPTIMAL_DIFFICULTY_RANGE))
        relaxed == SelectSeq(StreamAfterIteration(questions_query),
                             LAMBDA q : q.question_id \notin recent_questions)
        candidates == IF Len(strict) = 0 THEN relaxed ELSE strict
        scored == [i \in 1..Len(candidates) |->
                      <<candidates[i],
                        calculate_fisher_information(target_theta, candidates[i].difficulty_b,
                            candidates[i].discrimination_a, candidates[i].guessing_c)>>]
    IN  IF Len(candidates) = 0 THEN NoneDoc ELSE FirstMax(scored)

\* ReviewPriority with a response of the same day given priority 1
ReviewPriority_same_day(days_since) ==
    IF days_since >= 30 THEN 5
    ELSE IF days_since >= 14 THEN 4
    ELSE IF days_since >= 7 THEN 3
    ELSE IF days_since >= 3 THEN 2
    ELSE 1

\* priority of get_spaced_review_question; 0 stands for "continue"
ReviewPriority(days_since) ==
    IF days_since >= 30 THEN 5
    ELSE IF days_since >= 14 THEN 4
    ELSE IF days_since >= 7 THEN 3
    ELSE IF days_since >= 3 THEN 2
    ELSE IF days_since >= 1 THEN 1
    ELSE 0

\* The possible results of get_spaced_review_question: the responses are
\* streamed in document-id order (random ids), so max() may return any of
\* the candidates of the greatest (priority, days_since).
get_spaced_review_question(recent_questions) ==
    LET reviewable == {i \in 1..Len(responses) :
                          /\ responses[i].is_correct
                          /\ responses[i].question_id \notin recent_questions}
        days_since(i) == now - responses[i].answered_at
        scored == {i \in reviewable : ReviewPriority(days_since(i)) > 0}
        best == {i \in scored : \A j \in scored :
                    \/ ReviewPriority(days_since(j)) < ReviewPriority(days_since(i))
                    \/ /\ ReviewPriority(days_since(j)) = ReviewPriority(days_since(i))
                       /\ days_since(j) <= days_since(i)}
    IN  IF scored = {} THEN {NoneDoc}
        ELSE {get_question(responses[i].question_id) : i \in best}

\* ------------------------------------------------------------------------
\* Topic rankers
\* ------------------------------------------------------------------------
\* topic_attempts.get(topic, 0)
AttemptsGet(topic_attempts, topic) ==
    IF topic \in DOMAIN topic_attempts THEN topic_attempts[topic] ELSE 0

get_unexplored_topics(topic_attempts, min_attempts) ==
    SelectSeq(JEE_TOPIC_TABLE, LAMBDA topic :
        /\ AttemptsGet(topic_attempts, topic) < min_attempts
        /\ JEE_TOPIC_WEIGHTS_get(topic, 0) >= 600)

\* 30 times the priority of prioritize_exploration_topics, in thousandths
ExplorationPriority(topic, subject_balance) ==
    LET weightage_score == JEE_TOPIC_WEIGHTS_get(topic, 500)
        prereq_depth == TOPIC_PREREQUISITE_DEPTH_get(topic)
        subject == get_subject_from_topic(topic)
        current_coverage == IF subject \in DOMAIN subject_balance
                            THEN subject_balance[subject] ELSE 330
        balance_score == MILLI - Abs(current_coverage - MILLI \div 3)
    IN  15 * weightage_score + (9 * MILLI - 3 * MILLI * prereq_depth) + 6 * balance_score

prioritize_exploration_topics(unexplored_topics, subject_balance) ==
    Firsts(SortedByKeyReverse([i \in 1..Len(unexplored_topics) |->
        <<unexplored_topics[i], ExplorationPriority(unexplored_topics[i], subject_balance)>>]))

rank_topics_by_weakness(topics, theta_by_topic) ==
    Firsts(SortedByKey([i \in 1..Len(topics) |-> <<topics[i], theta_by_topic[topics[i]].theta>>]))

days_since_last_attempt(topic) ==
    LET of_topic == {i \in 1..Len(responses) : responses[i].topic = topic}
    IN  IF of_topic = {} THEN 999
        ELSE now - responses[CHOOSE i \in of_topic : \A j \in of_topic : j <= i].answered_at

\* 70 times the priority of rank_topics_by_priority_formula, in thousandths
ExploitationPriority(topic, theta_by_topic) ==
    LET theta == theta_by_topic[topic].theta
        days_since == days_since_last_attempt(topic)
    IN  7 * (3 * MILLI - theta) + 2 * MILLI * Min2(7, days_since)
          + 14 * JEE_TOPIC_WEIGHTS_get(topic, 500)

rank_topics_by_priority_formula(topics, theta_by_topic) ==
    Firsts(SortedByKeyReverse([i \in 1..Len(topics) |->
        <<topics[i], ExploitationPriority(topics[i], theta_by_topic)>>]))


\* ------------------------------------------------------------------------
\* Recovery quiz
\* ------------------------------------------------------------------------
\* Every concatenation of one list from each set of lists, in order.
RECURSIVE ConcatFrom(_, _)
ConcatFrom(sets, i) ==
    IF i > Len(sets) THEN {<<>>}
    ELSE {a \o b : a \in sets[i], b \in ConcatFrom(sets, i + 1)}

ConcatChoices(sets) == Bind(Force(sets), LAMBDA ss : ConcatFrom(ss, 1))

\* [q] if a question was found, [] if not
Found(q, slot) == IF q = NoneDoc THEN <<>> ELSE <<Entry(q, slot)>>

\* sorted(theta_by_topic.items(), key=theta)[:5], as topic names
RecoveryWeakTopics(theta_by_topic) ==
    Prefix(rank_topics_by_weakness(Keys(theta_by_topic), theta_by_topic), 5)

\* The lists recovery_questions can hold before interleaving.
RecoveryQuestions(student_data) ==
    Bind(<<get_recent_questions(RECENT_QUESTIONS_WINDOW_DAYS),
           RecoveryWeakTopics(student_data.theta_by_topic)>>, LAMBDA v :
        LET recent_questions == v[1]
            weak_topics == v[2]
            easy_topics == Prefix(weak_topics, 4)
            medium_topics == Prefix(weak_topics, 2)
            easy == [i \in 1..Len(easy_topics) |->
                        {Entries(qs, "easy") : qs \in select_questions_by_difficulty_range(
                            easy_topics[i], RECOVERY_EASY_MIN, RECOVERY_EASY_MAX, 2,
                            recent_questions, 1000)}]
            medium == [i \in 1..Len(medium_topics) |->
                        {Entries(qs, "medium") : qs \in select_questions_by_difficulty_range(
                            medium_topics[i], RECOVERY_MEDIUM_MIN, RECOVERY_MEDIUM_MAX, 1,
                            recent_questions, 1000)}]
            review == {Found(q, "review") :
                          q \in get_previously_correct_question(recent_questions, Range(weak_topics))}
        IN  ConcatChoices(easy \o medium \o <<review>>))

\* ------------------------------------------------------------------------
\* Normal quiz
\* ------------------------------------------------------------------------
\* LearningPhase with the boundary count on the exploration side
LearningPhase_inclusive(completed_quiz_count) ==
    IF completed_quiz_count <= EXPLORATION_END_QUIZ THEN "exploration" ELSE "exploitation"

\* LearningPhase that is "exploitation" at the count of the switch only
LearningPhase_at_switch_only(completed_quiz_count) ==
    IF completed_quiz_count = EXPLORATION_END_QUIZ THEN "exploitation" ELSE "exploration"

\* learning_phase of generate_daily_quiz (lines 929-937)
LearningPhase(completed_quiz_count) ==
    IF completed_quiz_count < EXPLORATION_END_QUIZ THEN "exploration" ELSE "exploitation"

\* The counts at which the binary64 value of QUIZ_LENGTH * exploration_ratio
\* lies just below the integer its real value equals:
\* 0.6 - 5 * 0.04 = 0.39999999999999997, and 10 times that is 3.9999999999999996.
F64_BELOW_INTEGER == {5}

\* int(QUIZ_LENGTH * exploration_ratio)
NumExploration(completed_quiz_count) ==
    LET exploration_ratio == Max2(EXPLORATION_START_RATIO - completed_quiz_count * 40,
                                  EXPLORATION_END_RATIO)
        exact == (QUIZ_LENGTH * exploration_ratio) \div MILLI
    IN  IF completed_quiz_count \in F64_BELOW_INTEGER THEN exact - 1 ELSE exact

\* The loop "for topic in topics: question = select_optimal_question_IRT(...);
\* if question: quiz_questions.append(question)", one set of lists per topic;
\* topic_targets lists each topic with the target theta of its call.
SelectedForTopics(topic_targets, recent_questions, discrimination_min, slot) ==
    Bind(Force(topic_targets), LAMBDA tts :
        [i \in 1..Len(tts) |->
            {Found(select_optimal_question_IRT(tts[i][1], tts[i][2],
                       recent_questions, discrimination_min), slot)}])

\* The lists quiz_questions can hold before interleaving, exploration phase.
ExplorationQuestions(student_data, completed_quiz_count, recent_questions_30d) ==
    LET theta_by_topic == student_data.theta_by_topic
        topic_attempts == student_data.topic_attempt_counts
        num_exploration == NumExploration(completed_quiz_count)
        num_deliberate == QUIZ_LENGTH - num_exploration - REVIEW_COUNT
        unexplored_topics == get_unexplored_topics(topic_attempts, 2)
        exploration_topics == Prefix(prioritize_exploration_topics(unexplored_topics,
                                         student_data.subject_balance), num_exploration)
        target_difficulty(topic) ==
            IF topic \notin DOMAIN theta_by_topic \/ AttemptsGet(topic_attempts, topic) = 0
            THEN EXPLORATION_TARGET_DIFFICULTY
            ELSE theta_by_topic[topic].theta
        tested_topics == SelectSeq(Keys(topic_attempts), LAMBDA t : topic_attempts[t] >= 2)
        weak_topics == Prefix(rank_topics_by_weakness(tested_topics, theta_by_topic), num_deliberate)
        review == {Found(q, "review") : q \in get_spaced_review_question(recent_questions_30d)}
    IN  ConcatChoices(
            Bind(exploration_topics, LAMBDA ts :
                SelectedForTopics([i \in 1..Len(ts) |-> <<ts[i], target_difficulty(ts[i])>>],
                                  recent_questions_30d, 1400, "exploration"))
            \o Bind(weak_topics, LAMBDA ts :
                SelectedForTopics([i \in 1..Len(ts) |-> <<ts[i], theta_by_topic[ts[i]].theta>>],
                                  recent_questions_30d, 1400, "deliberate"))
            \o <<review>>)

\* The lists quiz_questions can hold before interleaving, exploitation phase.
ExploitationQuestions(student_data, recent_questions_30d) ==
    LET theta_by_topic == student_data.theta_by_topic
        all_topics == Keys(theta_by_topic)
        with_theta(ts) == [i \in 1..Len(ts) |-> <<ts[i], theta_by_topic[ts[i]].theta>>]
        review == {Found(q, "review") : q \in get_spaced_review_question(recent_questions_30d)}
    IN  Bind(rank_topics_by_priority_formula(all_topics, theta_by_topic), LAMBDA ranked_topics :
            LET weak_topics == Prefix(ranked_topics, WEAK_TOPIC_COUNT_EXPLOITATION)
                strong_topics == Suffix(ranked_topics, 5)
                maintenance_choices ==
                    random_sample(Range(strong_topics),
                                  Min2(MAINTENANCE_COUNT_EXPLOITATION, Len(strong_topics)))
            IN  UNION {ConcatChoices(
                           SelectedForTopics(with_theta(weak_topics),
                                             recent_questions_30d, 1400, "weak")
                           \o SelectedForTopics(with_theta(maintenance_topics),
                                                recent_questions_30d, 1000, "maintenance")
                           \o <<review>>) :
                       maintenance_topics \in maintenance_choices})

\* The quizzes the normal path of generate_daily_quiz can return.
NormalQuiz(student_data, completed_quiz_count) ==
    LET recent_questions_30d == get_recent_questions(RECENT_QUESTIONS_WINDOW_DAYS)
        quiz_question_lists ==
            IF LearningPhase(completed_quiz_count) = "exploration"
            THEN ExplorationQuestions(student_data, completed_quiz_count, recent_questions_30d)
            ELSE ExploitationQuestions(student_data, recent_questions_30d)
    IN  UNION {{Prefix(interleaved_quiz, QUIZ_LENGTH) :
                    interleaved_quiz \in interleave_questions_by_topic(quiz_questions)} :
               quiz_questions \in quiz_question_lists}


\* ------------------------------------------------------------------------
\* generate_daily_quiz
\* ------------------------------------------------------------------------
\* The document save_quiz_metadata writes.
save_quiz_metadata(quiz_id, completed_quiz_count, learning_phase, quiz) ==
    [quiz_id |-> quiz_id,
     quiz_number |-> completed_quiz_count,
     current_day |-> now - student.assessment_completed_at,
     learning_phase |-> learning_phase,
     generated_at |-> now,
     questions |-> [i \in 1..Len(quiz) |->
                       [question_id |-> quiz[i].question.question_id,
                        topic |-> quiz[i].question.topic,
                        difficulty_b |-> quiz[i].question.difficulty_b,
                        position |-> i]],
     topics_covered |-> {quiz[i].question.topic : i \in 1..Len(quiz)}]

\* What generate_daily_quiz returns for the quiz built: the list of question
\* dicts; slots names the slot each of them was selected for, and
\* completed_quiz_count the argument of the call.
QuizReturned(arg, quiz) ==
    [op |-> "generate_daily_quiz",
     completed_quiz_count |-> arg,
     value |-> [i \in 1..Len(quiz) |-> quiz[i].question],
     slots |-> [i \in 1..Len(quiz) |-> quiz[i].slot]]

\* theta_by_topic[topic] raises KeyError in the deliberate-practice loop
DeliberateKeyError(student_data, completed_quiz_count) ==
    /\ LearningPhase(completed_quiz_count) = "exploration"
    /\ \E t \in DOMAIN student_data.topic_attempt_counts :
          /\ student_data.topic_attempt_counts[t] >= 2
          /\ t \notin DOMAIN student_data.theta_by_topic

\* RecoveryProfileUpdate without the increment of the quiz count
RecoveryProfileUpdate_no_increment(student_data) ==
    [student_data EXCEPT
        !.learning_phase = "recovery",
        !.last_quiz_completed_at = now]

\* RecoveryProfileUpdate that counts the quiz as a question solved
RecoveryProfileUpdate_counts_solved(student_data) ==
    [student_data EXCEPT
        !.completed_quiz_count = @ + 1,
        !.learning_phase = "recovery",
        !.last_quiz_completed_at = now,
        !.total_questions_solved = @ + 1]

\* RecoveryProfileUpdate with the phase of the normal path
RecoveryProfileUpdate_normal_phase(student_data) ==
    [student_data EXCEPT
        !.completed_quiz_count = @ + 1,
        !.learning_phase = IF @ = "recovery" THEN "exploration" ELSE @,
        !.last_quiz_completed_at = now]

\* student_ref.update of the recovery branch (lines 911-915)
RecoveryProfileUpdate(student_data) ==
    [student_data EXCEPT
        !.completed_quiz_count = @ + 1,
        !.learning_phase = "recovery",
        !.last_quiz_completed_at = now]

\* generate_recovery_quiz, called with the argument arg of generate_daily_quiz:
\* it builds a quiz, logs the event, saves the metadata under the stored
\* count and returns the quiz.
generate_recovery_quiz(arg, student_data) ==
    \E recovery_questions \in RecoveryQuestions(student_data) :
        \E interleaved \in interleave_questions_by_topic(Prefix(recovery_questions, 10)) :
            /\ system_events' = system_events + 1
            /\ quiz_doc' = save_quiz_metadata(<<"recovery_quiz", NoneInt, now>>,
                               student_data.completed_quiz_count, "recovery", interleaved)
            /\ returned' = QuizReturned(arg, interleaved)

\* The recovery branch of generate_daily_quiz (lines 905-917).
RecoveryBranch(arg, student_data) ==
    /\ generate_recovery_quiz(arg, student_data)
    /\ student' = RecoveryProfileUpdate(student_data)

\* The value phase_switched_at_quiz has after lines 930-941.
PhaseSwitchedAfter(student_data, completed_quiz_count) ==
    IF /\ LearningPhase(completed_quiz_count) = "exploitation"
       /\ student_data.phase_switched_at_quiz = NoneInt
    THEN completed_quiz_count
    ELSE student_data.phase_switched_at_quiz

\* The normal branch of generate_daily_quiz (lines 923-1058).
NormalBranch(arg, student_data, completed_quiz_count) ==
    /\ ~DeliberateKeyError(student_data, completed_quiz_count)
    /\ \E final_quiz \in NormalQuiz(student_data, completed_quiz_count) :
        /\ quiz_doc' = save_quiz_metadata(<<"quiz_num", completed_quiz_count, now>>,
                           completed_quiz_count, LearningPhase(completed_quiz_count), final_quiz)
        /\ student' = [student_data EXCEPT
               !.phase_switched_at_quiz = PhaseSwitchedAfter(student_data, completed_quiz_count),
               !.completed_quiz_count = @ + 1,
               !.learning_phase = LearningPhase(completed_quiz_count),
               !.last_quiz_completed_at = now]
        /\ returned' = QuizReturned(arg, final_quiz)
        /\ UNCHANGED system_events

\* arg is the completed_quiz_count argument, NoneInt when it is left out.
generate_daily_quiz(arg) ==
    LET student_data == student
        completed_quiz_count == IF arg = NoneInt THEN student_data.completed_quiz_count ELSE arg
    IN  /\ student # NoneDoc
        /\ IF check_circuit_breaker
           THEN RecoveryBranch(arg, student_data)
           ELSE NormalBranch(arg, student_data, completed_quiz_count)
        /\ UNCHANGED <<questions, responses, now, calls>>

\* Time passes.
Tick(days) ==
    /\ now' = now + days
    /\ UNCHANGED <<questions, student, responses, quiz_doc, system_events, returned, calls>>

\* ------------------------------------------------------------------------
\* Catalogs and inputs
\* ------------------------------------------------------------------------
tKinematics == <<"physics", "mechanics_kinematics">>
tNewton == <<"physics", "mechanics_newtons_laws">>
tThermo == <<"chemistry", "physical_thermodynamics">>
tEquilibrium == <<"chemistry", "physical_equilibrium">>
tLimits == <<"mathematics", "calculus_limits">>
tAtoms == <<"physics", "modern_atoms">>

\* The state after construction: empty collections except the catalog.
InitWith(catalog) ==
    /\ questions = catalog
    /\ student = NoneDoc
    /\ responses = <<>>
    /\ quiz_doc = NoneDoc
    /\ system_events = 0
    /\ now = 0
    /\ returned = [op |-> "none"]
    /\ calls = [c \in Calls |-> IdleCall]

\* A list of n assessment responses on question id, the first k of them correct.
AssessmentOf(id, n, k) == [i \in 1..n |-> [question_id |-> id, is_correct |-> i <= k]]


\* ------------------------------------------------------------------------
\* Spec: a learner is assessed, answers, and asks for quizzes over a week
\* ------------------------------------------------------------------------
CatalogSpec ==
    << Question("X", tKinematics, 500, 1500, 250),
       Question("Z", tNewton, 900, 1500, 250),
       Question("Y", tNewton, 900, 1500, 250) >>

SpecAssessments ==
    { AssessmentOf("X", 3, 2),
      AssessmentOf("X", 1, 1) \o AssessmentOf("Z", 1, 0) }

\* The learner knows X and does not know Z.
SpecAnswers ==
    { [question_id |-> "X", is_correct |-> TRUE],
      [question_id |-> "Z", is_correct |-> FALSE] }

\* The completed_quiz_count arguments of generate_daily_quiz: left out, or the
\* count of the first exploitation quiz.
QuizArgs == {NoneInt, EXPLORATION_END_QUIZ}

\* Bounds: responses logged, the stored quiz count, and the days that pass.
MaxResponses == 6
MaxQuizzes == 2
MaxDays == 7

Init == InitWith(CatalogSpec)

\* The learner is assessed, and re-assessed, before the first response is logged.
Assess ==
    /\ responses = <<>>
    /\ \E rs \in SpecAssessments : process_initial_assessment(rs)

Answer ==
    /\ Len(responses) < MaxResponses
    /\ \E r \in SpecAnswers : update_theta_after_response(r.question_id, r.is_correct)

Generate ==
    /\ student # NoneDoc
    /\ student.completed_quiz_count < MaxQuizzes
    /\ \E arg \in QuizArgs : generate_daily_quiz(arg)

Pass ==
    /\ now + 7 <= MaxDays
    /\ Tick(7)

Next == Assess \/ Answer \/ Generate \/ Pass

Spec == Init /\ [][Next]_vars

\* A step of generate_daily_quiz, with any argument.
GenerateStep ==
    /\ returned'.op = "generate_daily_quiz"
    /\ \E arg \in QuizArgs : generate_daily_quiz(arg)

\* C1: no item id occurs more than once in a quiz generate_daily_quiz returns.
NoItemTwiceInQuiz ==
    returned.op = "generate_daily_quiz" =>
        \A i, j \in DOMAIN returned.value :
            i # j => returned.value[i].question_id # returned.value[j].question_id

\* C2: every generate_daily_quiz call that returns a quiz increases the
\* stored completed_quiz_count by exactly 1.
QuizCountIncrementedByOne ==
    [][GenerateStep => student'.completed_quiz_count = student.completed_quiz_count + 1]_vars

\* Two quizzes were returned, the second one a non-empty recovery quiz.
SecondQuizCounted ==
    /\ returned.op = "generate_daily_quiz"
    /\ Len(returned.value) > 0
    /\ student.learning_phase = "recovery"
    /\ student.completed_quiz_count = 2

\* C3: the stored completed_quiz_count never decreases, whatever operation runs.
QuizCountNeverDecreases ==
    [][(student # NoneDoc /\ student' # NoneDoc) =>
          student'.completed_quiz_count >= student.completed_quiz_count]_vars

\* C8: a generate_daily_quiz call at which the breaker triggers returns a
\* recovery quiz, logs exactly one event, stores the quiz metadata with
\* phase "recovery" and leaves the profile's learning_phase at "recovery".
BreakerCallGivesRecoveryQuiz ==
    [][(check_circuit_breaker /\ GenerateStep) =>
          /\ \E recovery_questions \in RecoveryQuestions(student) :
                \E quiz \in interleave_questions_by_topic(Prefix(recovery_questions, 10)) :
                    returned'.value = [i \in 1..Len(quiz) |-> quiz[i].question]
          /\ \A i \in DOMAIN returned'.slots : returned'.slots[i] \in {"easy", "medium", "review"}
          /\ system_events' = system_events + 1
          /\ quiz_doc'.learning_phase = "recovery"
          /\ [i \in DOMAIN quiz_doc'.questions |-> quiz_doc'.questions[i].question_id]
               = [i \in DOMAIN returned'.value |-> returned'.value[i].question_id]
          /\ student'.learning_phase = "recovery"]_vars

\* The breaker is on and the call has returned a non-empty recovery quiz.
RecoveryQuizReturned ==
    /\ returned.op = "generate_daily_quiz"
    /\ check_circuit_breaker
    /\ Len(returned.value) > 0
    /\ system_events = 1
    /\ quiz_doc.learning_phase = "recovery"

\* The correct responses 7 to 14 days old on one of the weakest topics.
ReviewableResponses ==
    {i \in 1..Len(responses) :
        /\ responses[i].is_correct
        /\ now - responses[i].answered_at >= 7
        /\ now - responses[i].answered_at <= 14
        /\ responses[i].topic \in Range(RecoveryWeakTopics(student.theta_by_topic))}

\* C10: when the breaker triggers and a correct response 7 to 14 days old on
\* a weakest topic exists, the recovery quiz returned contains an item of
\* such a response.
RecoveryQuizHasReviewItem ==
    [][(check_circuit_breaker /\ ReviewableResponses # {} /\ GenerateStep) =>
          \E i \in DOMAIN returned'.value, j \in ReviewableResponses :
              returned'.value[i].question_id = responses[j].question_id]_vars

\* ------------------------------------------------------------------------
\* SpecPhase: the stored quiz count passes the end of exploration
\* ------------------------------------------------------------------------
\* Bounds: the stored quiz count and the responses logged.
MaxPhaseQuizzes == 16
MaxPhaseLog == 5

InitPhase == InitWith(CatalogSpec)

AssessPhase ==
    /\ student = NoneDoc
    /\ process_initial_assessment(AssessmentOf("X", 3, 2))

AnswerPhase ==
    /\ Len(responses) < MaxPhaseLog
    /\ \E r \in SpecAnswers : update_theta_after_response(r.question_id, r.is_correct)

QuizPhase ==
    /\ student # NoneDoc
    /\ student.completed_quiz_count < MaxPhaseQuizzes
    /\ \E arg \in QuizArgs : generate_daily_quiz(arg)

NextPhase == AssessPhase \/ AnswerPhase \/ QuizPhase

SpecPhase == InitPhase /\ [][NextPhase]_vars

\* C5: phase_switched_at_quiz stays unset by a call at a count below 14, is
\* set to the call's count by the first call at a count of 14 or more,
\* whichever path the call takes, and is never changed once set.  The calls
\* are those that leave the count argument out: their count is the stored one.
PhaseSwitchSetOnceFromCount14 ==
    [][/\ (returned'.op = "generate_daily_quiz" /\ generate_daily_quiz(NoneInt)) =>
            IF student.phase_switched_at_quiz # NoneInt
            THEN student'.phase_switched_at_quiz = student.phase_switched_at_quiz
            ELSE IF student.completed_quiz_count < 14
            THEN student'.phase_switched_at_quiz = NoneInt
            ELSE student'.phase_switched_at_quiz = student.completed_quiz_count
       /\ (/\ student # NoneDoc
           /\ student' # NoneDoc
           /\ student.phase_switched_at_quiz # NoneInt) =>
               student'.phase_switched_at_quiz = student.phase_switched_at_quiz]_vars

\* The slots of an exploration quiz and of an exploitation quiz.
ExplorationSlots == {"exploration", "deliberate", "review"}
ExploitationSlots == {"weak", "maintenance", "review"}

\* C6: a generate_daily_quiz call at count q at which the breaker does not
\* trigger builds an exploration quiz iff q < 14 and an exploitation quiz iff
\* q >= 14, and writes that phase to the profile and to the quiz metadata.
PhaseFollowsQuizCount ==
    [][\A arg \in QuizArgs :
          (/\ returned'.op = "generate_daily_quiz"
           /\ ~check_circuit_breaker
           /\ generate_daily_quiz(arg)) =>
              LET q == IF arg = NoneInt THEN student.completed_quiz_count ELSE arg
                  phase == IF q < 14 THEN "exploration" ELSE "exploitation"
                  slots == IF q < 14 THEN ExplorationSlots ELSE ExploitationSlots
              IN  /\ \A i \in DOMAIN returned'.slots : returned'.slots[i] \in slots
                  /\ student'.learning_phase = phase
                  /\ quiz_doc'.learning_phase = phase
                  /\ quiz_doc'.quiz_number = q]_vars

\* The quizzes at counts 13 and 14 were generated on the normal path: the
\* one at 14 is a non-empty exploitation quiz and the switch is recorded.
FirstExploitationQuizStored ==
    /\ returned.op = "generate_daily_quiz"
    /\ ~check_circuit_breaker
    /\ student.completed_quiz_count = 15
    /\ student.phase_switched_at_quiz = 14
    /\ quiz_doc.quiz_number = 14
    /\ quiz_doc.learning_phase = "exploitation"
    /\ \E i \in DOMAIN returned.slots : returned.slots[i] = "weak"

\* The last call was a generate_daily_quiz call that took the recovery path.
LastCallGaveRecoveryQuiz ==
    /\ returned.op = "generate_daily_quiz"
    /\ quiz_doc # NoneDoc
    /\ quiz_doc.learning_phase = "recovery"

QuizWrittenFields ==
    {"completed_quiz_count", "learning_phase", "phase_switched_at_quiz", "last_quiz_completed_at"}

\* C33: a generate_daily_quiz call, on the normal or the recovery path,
\* leaves theta_by_topic, topic_attempt_counts, total_questions_solved and
\* the response log as they were; of the profile it writes only
\* completed_quiz_count, learning_phase, phase_switched_at_quiz and
\* last_quiz_completed_at, and outside the profile only the quiz metadata
\* and the event log.
QuizCallFrame ==
    [][GenerateStep =>
          /\ student'.theta_by_topic = student.theta_by_topic
          /\ student'.topic_attempt_counts = student.topic_attempt_counts
          /\ student'.total_questions_solved = student.total_questions_solved
          /\ responses' = responses
          /\ DOMAIN student' = DOMAIN student
          /\ \A f \in DOMAIN student \ QuizWrittenFields : student'[f] = student[f]
          /\ questions' = questions]_vars

\* A recovery quiz was returned to a learner with logged responses whose
\* switch to exploitation an earlier call on the normal path recorded.
RecoveryQuizAfterPhaseSwitch ==
    /\ LastCallGaveRecoveryQuiz
    /\ student.phase_switched_at_quiz = EXPLORATION_END_QUIZ
    /\ student.total_questions_solved = 3 + Len(responses)
    /\ student.last_quiz_completed_at # NoneInt

\* ------------------------------------------------------------------------
\* SpecRecovery: the breaker triggers for a learner with four weak topics
\* ------------------------------------------------------------------------
CatalogRecovery ==
    << Question("W",  tKinematics,  1000, 1500, 250),
       Question("A1", tKinematics,  500,  1200, 250),
       Question("A2", tKinematics,  600,  1200, 250),
       Question("AM", tKinematics,  900,  1200, 250),
       Question("B1", tNewton,      500,  1200, 250),
       Question("B2", tNewton,      600,  1200, 250),
       Question("C1", tThermo,      500,  1200, 250),
       Question("C2", tThermo,      600,  1200, 250),
       Question("CM", tThermo,      900,  1200, 250),
       Question("D1", tEquilibrium, 500,  1200, 250),
       Question("D2", tEquilibrium, 600,  1200, 250) >>

\* One assessment item on each of the four topics.
RecoveryAssessment ==
    AssessmentOf("A1", 1, 0) \o AssessmentOf("B1", 1, 0)
        \o AssessmentOf("C1", 1, 0) \o AssessmentOf("D1", 1, 1)

\* Bounds: responses logged and the stored quiz count.
MaxRecoveryLog == 5
MaxRecoveryQuizzes == 1

InitRecovery == InitWith(CatalogRecovery)

AssessRecovery ==
    /\ student = NoneDoc
    /\ process_initial_assessment(RecoveryAssessment)

AnswerRecovery ==
    /\ Len(responses) < MaxRecoveryLog
    /\ \E is_correct \in BOOLEAN : update_theta_after_response("W", is_correct)

QuizRecovery ==
    /\ student # NoneDoc
    /\ student.completed_quiz_count < MaxRecoveryQuizzes
    /\ generate_daily_quiz(NoneInt)

NextRecovery == AssessRecovery \/ AnswerRecovery \/ QuizRecovery

SpecRecovery == InitRecovery /\ [][NextRecovery]_vars

\* The number of items of a slot in the quiz returned that are on a topic.
SlotCount(slot, topics) ==
    Cardinality({i \in DOMAIN returned.slots :
                    returned.slots[i] = slot /\ returned.value[i].topic \in topics})

\* All topics of the catalog.
AllTopics == {questions[i].topic : i \in 1..Len(questions)}

\* C9: a recovery quiz holds at most 7 easy items, at most 2 of them from
\* each of the three weakest topics and at most 1 from the fourth weakest,
\* at most 2 medium items and at most 1 review item.
RecoveryComposition ==
    (returned.op = "generate_daily_quiz" /\ check_circuit_breaker) =>
        LET weak_topics == RecoveryWeakTopics(student.theta_by_topic)
        IN  /\ SlotCount("easy", AllTopics) <= 7
            /\ \A k \in 1..Min2(3, Len(weak_topics)) : SlotCount("easy", {weak_topics[k]}) <= 2
            /\ Len(weak_topics) >= 4 => SlotCount("easy", {weak_topics[4]}) <= 1
            /\ SlotCount("medium", AllTopics) <= 2
            /\ SlotCount("review", AllTopics) <= 1

\* C12: every quiz generate_daily_quiz returns, on the normal path and on the
\* recovery path, has at most 10 items.
QuizHasAtMostTenItems ==
    returned.op = "generate_daily_quiz" => Len(returned.value) <= 10

\* A recovery quiz of 10 items was returned, and stored with its 10 items.
TenItemQuizReturned ==
    /\ returned.op = "generate_daily_quiz"
    /\ check_circuit_breaker
    /\ Len(returned.value) = 10
    /\ Len(quiz_doc.questions) = 10

\* ------------------------------------------------------------------------
\* SpecAbility: the ability store under assessments and responses
\* ------------------------------------------------------------------------
CatalogAbility ==
    << Question("K1", tKinematics, 2600, 2000, 0),
       Question("N1", tNewton, 1000, 1500, 250),
       Question("T1", tThermo, 400, 1000, 250) >>

AbilityAssessments ==
    { <<>>,
      AssessmentOf("K1", 1, 1),
      AssessmentOf("K1", 10, 9),
      AssessmentOf("T1", 5, 0),
      AssessmentOf("T1", 3, 2) \o AssessmentOf("N1", 1, 0) }

AbilityAnswered == {"K1", "N1"}

\* Bound: responses logged.  The learner is assessed, and re-assessed,
\* before the first response is logged.
MaxUpdates == 6

InitAbility == InitWith(CatalogAbility)

AssessAbility ==
    /\ responses = <<>>
    /\ \E rs \in AbilityAssessments : process_initial_assessment(rs)

UpdateAbility ==
    /\ Len(responses) < MaxUpdates
    /\ \E id \in AbilityAnswered, is_correct \in BOOLEAN :
          update_theta_after_response(id, is_correct)

NextAbility == AssessAbility \/ UpdateAbility

SpecAbility == InitAbility /\ [][NextAbility]_vars

\* C32: after any sequence of assessments and responses, one call at a time,
\* topic_attempt_counts and theta_by_topic have the same topics and the count
\* of every topic is the attempts of its ability record.
AttemptCountsMatchRecords ==
    student # NoneDoc
    => /\ DOMAIN student.topic_attempt_counts = DOMAIN student.theta_by_topic
       /\ \A t \in DOMAIN student.topic_attempt_counts :
             student.topic_attempt_counts[t] = student.theta_by_topic[t].attempts

\* A topic of the assessment and a topic first met in a response both have
\* a count of 2 or more, the count a quiz reads the record for.
CountsOfTwoOnBothKindsOfTopic ==
    /\ student # NoneDoc
    /\ \E t, u \in DOMAIN student.topic_attempt_counts :
          /\ student.topic_attempt_counts[t] >= 2
          /\ student.topic_attempt_counts[t] = Cardinality({i \in 1..Len(responses) : responses[i].topic = t})
          /\ student.topic_attempt_counts[u] >= 2
          /\ student.topic_attempt_counts[u] > Cardinality({i \in 1..Len(responses) : responses[i].topic = u})
          /\ \E i \in 1..Len(responses) : responses[i].topic = u

\* C28: in every reachable state the stored overall_theta is the JEE-weighted
\* mean of the stored per-topic thetas (weight 0.5 for a topic with no entry
\* in the weight table), after process_initial_assessment and after every
\* update_theta_after_response.
OverallThetaIsWeightedMean ==
    student # NoneDoc
    => student.overall_theta = calculate_weighted_overall_theta(student.theta_by_topic)

\* C4: every stored per-topic theta lies in [-3, 3] and every stored SE in
\* [0.1, 0.6], after any sequence of assessments and responses, also for a
\* topic whose record was created by prior inheritance.
ThetaAndSEWithinBounds ==
    student # NoneDoc =>
        \A t \in DOMAIN student.theta_by_topic :
            /\ student.theta_by_topic[t].theta >= -3000
            /\ student.theta_by_topic[t].theta <= 3000
            /\ student.theta_by_topic[t].confidence_SE >= 100
            /\ student.theta_by_topic[t].confidence_SE <= 600

\* A record created by prior inheritance (SE 0.6 reduced once, one attempt)
\* is stored, and a response has driven some theta to the upper bound.
PriorInheritedAndClampedStored ==
    /\ student # NoneDoc
    /\ \E t \in DOMAIN student.theta_by_topic :
          /\ student.theta_by_topic[t].attempts = 1
          /\ student.theta_by_topic[t].confidence_SE = 570
    /\ \E t \in DOMAIN student.theta_by_topic : student.theta_by_topic[t].theta = 3000
    /\ returned.op = "update_theta_after_response"


\* ------------------------------------------------------------------------
\* SpecLog: the circuit breaker over response logs
\* ------------------------------------------------------------------------
CatalogLog ==
    << Question("K2", tKinematics, 900, 1500, 250),
       Question("K3", tKinematics, 950, 1200, 250) >>

\* Bounds: responses logged and quizzes generated.
MaxLogLen == 11
MaxLogQuizzes == 1

InitLog == InitWith(CatalogLog)

AssessLog ==
    /\ student = NoneDoc
    /\ process_initial_assessment(AssessmentOf("K3", 1, 1))

UpdateLog ==
    /\ Len(responses) < MaxLogLen
    /\ \E is_correct \in BOOLEAN : update_theta_after_response("K2", is_correct)

QuizLog ==
    /\ student # NoneDoc
    /\ student.completed_quiz_count < MaxLogQuizzes
    /\ generate_daily_quiz(NoneInt)

NextLog == AssessLog \/ UpdateLog \/ QuizLog

SpecLog == InitLog /\ [][NextLog]_vars

\* C7: check_circuit_breaker is true iff the log has at least 5 entries and
\* its 5 newest entries are all incorrect.
BreakerIffFiveNewestIncorrect ==
    check_circuit_breaker <=>
        /\ Len(responses) >= 5
        /\ \A i \in (Len(responses) - 4)..Len(responses) : ~responses[i].is_correct

\* The breaker is on over a log of more than 10 entries whose newest 5 are
\* incorrect and whose sixth newest is correct.
BreakerOnLongLog ==
    /\ Len(responses) > 10
    /\ check_circuit_breaker
    /\ responses[Len(responses) - 5].is_correct

\* ------------------------------------------------------------------------
\* SpecRecent: responses on both sides of the 30-day window
\* ------------------------------------------------------------------------
\* The learner knows X and answers Z either way.
RecentAnswers ==
    { [question_id |-> "X", is_correct |-> TRUE],
      [question_id |-> "Z", is_correct |-> FALSE],
      [question_id |-> "Z", is_correct |-> TRUE] }

\* Bounds: responses logged, the stored quiz count, and the days that pass.
MaxRecentLog == 3
MaxRecentQuizzes == 1
MaxRecentDays == 31

InitRecent == InitWith(CatalogSpec)

AssessRecent ==
    /\ student = NoneDoc
    /\ process_initial_assessment(AssessmentOf("X", 3, 2))

AnswerRecent ==
    /\ Len(responses) < MaxRecentLog
    /\ \E r \in RecentAnswers : update_theta_after_response(r.question_id, r.is_correct)

QuizRecent ==
    /\ student # NoneDoc
    /\ student.completed_quiz_count < MaxRecentQuizzes
    /\ generate_daily_quiz(NoneInt)

PassRecent ==
    /\ now + 31 <= MaxRecentDays
    /\ Tick(31)

NextRecent == AssessRecent \/ AnswerRecent \/ QuizRecent \/ PassRecent

SpecRecent == InitRecent /\ [][NextRecent]_vars

\* The ids of the items the learner answered within the last 30 days.
RecentSet30 ==
    {responses[j].question_id : j \in {k \in 1..Len(responses) : now - responses[k].answered_at <= 30}}

NoAdjacentItemsOfOneTopic ==
    (/\ returned.op = "generate_daily_quiz"
     /\ Cardinality({returned.value[i].topic : i \in DOMAIN returned.value}) >= 2) =>
        \A i \in 1..(Len(returned.value) - 1) :
            returned.value[i].topic # returned.value[i + 1].topic

\* ------------------------------------------------------------------------
\* SpecInterleave: interleave_questions_by_topic over lists of questions
\* ------------------------------------------------------------------------
\* Bound: the length of the list.
MaxInterleaveLen == 6

InterleaveTopics == {tKinematics, tNewton, tThermo}

InterleaveIds == <<"Q1", "Q2", "Q3", "Q4", "Q5", "Q6", "Q7">>

\* The list of questions whose topics are ts, in order.
QuestionsOn(ts) == [i \in 1..Len(ts) |-> Question(InterleaveIds[i], ts[i], 900, 1500, 250)]

\* The argument of the call is any list of up to MaxInterleaveLen questions.
InitInterleave ==
    /\ questions = <<>>
    /\ student = NoneDoc
    /\ responses = <<>>
    /\ quiz_doc = NoneDoc
    /\ system_events = 0
    /\ now = 0
    /\ calls = [c \in Calls |-> IdleCall]
    /\ \E n \in 0..MaxInterleaveLen : \E ts \in [1..n -> InterleaveTopics] :
          returned = [op |-> "input", value |-> QuestionsOn(ts)]

CallInterleave ==
    /\ returned.op = "input"
    /\ \E interleaved \in interleave_questions_by_topic(Entries(returned.value, "input")) :
          returned' = [op |-> "interleave_questions_by_topic",
                       input |-> returned.value,
                       value |-> [i \in 1..Len(interleaved) |-> interleaved[i].question]]
    /\ UNCHANGED <<questions, student, responses, quiz_doc, system_events, now, calls>>

NextInterleave == CallInterleave

SpecInterleave == InitInterleave /\ [][NextInterleave]_vars

\* A list of questions has an order with no two adjacent items of one topic
\* iff no topic has more than half of the places, rounded up.
AdmitsAlternation(qs) ==
    \A t \in InterleaveTopics :
        2 * Cardinality({i \in 1..Len(qs) : qs[i].topic = t}) <= Len(qs) + 1

\* C14: for a list that has an order with no two adjacent items of one topic,
\* every list interleave_questions_by_topic can return has no two adjacent
\* items of one topic.
InterleaveAlternatesWhenPossible ==
    (returned.op = "interleave_questions_by_topic" /\ AdmitsAlternation(returned.input)) =>
        \A i \in 1..(Len(returned.value) - 1) :
            returned.value[i].topic # returned.value[i + 1].topic

\* The questions of a list that are on a topic, in order.
OnTopic(qs, t) == SelectSeq(qs, LAMBDA q : q.topic = t)

\* C21: interleave_questions_by_topic returns on every list, and what it
\* returns is a permutation of its input in which the items of each topic
\* keep their input order: as long as the input, with the same items of each
\* topic in the same order and no item on another topic.
InterleaveReturnsPermutation ==
    /\ returned.op = "input" =>
          interleave_questions_by_topic(Entries(returned.value, "input")) # {}
    /\ returned.op = "interleave_questions_by_topic" =>
          /\ Len(returned.value) = Len(returned.input)
          /\ \A i \in 1..Len(returned.value) : returned.value[i].topic \in InterleaveTopics
          /\ \A t \in InterleaveTopics :
                OnTopic(returned.value, t) = OnTopic(returned.input, t)

\* A list of two topics, one of them with two questions, came back reordered.
InterleaveReordered ==
    /\ returned.op = "interleave_questions_by_topic"
    /\ returned.value # returned.input
    /\ \E t \in InterleaveTopics : Len(OnTopic(returned.input, t)) >= 2
    /\ \E i, j \in 1..Len(returned.input) : returned.input[i].topic # returned.input[j].topic

\* ------------------------------------------------------------------------
\* SpecCalls: two update_theta_after_response calls of one learner, step by step
\* ------------------------------------------------------------------------
CallsAssessment == AssessmentOf("X", 3, 2)

InitCalls == InitWith(CatalogSpec)

AssessCalls ==
    /\ student = NoneDoc
    /\ process_initial_assessment(CallsAssessment)

ReadCalls ==
    \E c \in Calls, question_id \in {"X", "Z"}, is_correct \in BOOLEAN :
        ReadProfile(c, question_id, is_correct)

WriteCalls == \E c \in Calls : WriteProfile(c)

LogCalls == \E c \in Calls : LogResponse(c)

RaiseCalls == \E c \in Calls : RaiseInCall(c)

NextCalls == AssessCalls \/ ReadCalls \/ WriteCalls \/ LogCalls \/ RaiseCalls

SpecCalls == InitCalls /\ [][NextCalls]_vars

\* The responses of the assessment on topic t, and the correct ones of them.
AssessedAttempts(t) ==
    Cardinality({i \in 1..Len(CallsAssessment) :
                    get_question(CallsAssessment[i].question_id).topic = t})
AssessedCorrect(t) ==
    Cardinality({i \in 1..Len(CallsAssessment) :
                    /\ get_question(CallsAssessment[i].question_id).topic = t
                    /\ CallsAssessment[i].is_correct})

\* The logged responses on topic t, and the correct ones of them.
LoggedOn(t) == {i \in 1..Len(responses) : responses[i].topic = t}
LoggedCorrectOn(t) == {i \in LoggedOn(t) : responses[i].is_correct}

\* C15: when two calls on one topic of one learner have both returned, in
\* whatever order their reads and writes of the profile took place, the
\* topic's attempts is 2 more than before, as topic_attempt_counts is, and
\* its accuracy is the fraction correct of all responses on the topic.
NoUpdateLost ==
    (/\ \A c \in Calls : calls[c].pc = "returned"
     /\ get_question(calls[1].question_id).topic = get_question(calls[2].question_id).topic) =>
        LET t == get_question(calls[1].question_id).topic
        IN  /\ student.topic_attempt_counts[t] = AssessedAttempts(t) + 2
            /\ student.theta_by_topic[t].attempts = AssessedAttempts(t) + 2
            /\ student.theta_by_topic[t].accuracy =
                   Frac(AssessedCorrect(t) + Cardinality(LoggedCorrectOn(t)), AssessedAttempts(t) + 2)

\* C17: once every call has ended, by returning or by raising, the profile
\* has been updated exactly for the responses that are in the log: each
\* topic's counter and the total count the assessment's responses and the
\* logged ones.
NoPartialUpdate ==
    (student # NoneDoc /\ \A c \in Calls : calls[c].pc \in {"idle", "returned", "raised"}) =>
        /\ student.total_questions_solved = Len(CallsAssessment) + Len(responses)
        /\ \A t \in AllTopics :
              AttemptsGet(student.topic_attempt_counts, t)
                  = AssessedAttempts(t) + Cardinality(LoggedOn(t))

\* A step that is a call of update_theta_after_response.
UpdateStep ==
    \E question_id \in QuestionIds, is_correct \in BOOLEAN :
        update_theta_after_response(question_id, is_correct)

\* The attempts stored for a topic, 0 for a topic with no record.
StoredAttempts(profile, t) ==
    IF t \in DOMAIN profile.theta_by_topic THEN profile.theta_by_topic[t].attempts ELSE 0

\* C25: a call of update_theta_after_response appends one response to the
\* log and adds 1 to the attempts of the response's topic, to
\* topic_attempt_counts of the topic and to total_questions_solved; the
\* theta_after and confidence_SE_after of the response are the theta and SE
\* the profile stores for the topic.
UpdateCountsOneResponse ==
    [][UpdateStep =>
        /\ Len(responses') = Len(responses) + 1
        /\ SubSeq(responses', 1, Len(responses)) = responses
        /\ LET r == responses'[Len(responses')]
               t == r.topic
           IN  /\ t \in DOMAIN student'.theta_by_topic
               /\ student'.theta_by_topic[t].attempts = StoredAttempts(student, t) + 1
               /\ AttemptsGet(student'.topic_attempt_counts, t)
                     = AttemptsGet(student.topic_attempt_counts, t) + 1
               /\ student'.total_questions_solved = student.total_questions_solved + 1
               /\ r.theta_after = student'.theta_by_topic[t].theta
               /\ r.confidence_SE_after = student'.theta_by_topic[t].confidence_SE]_vars

\* Responses were counted on a topic the assessment covered and on a topic
\* whose record was created by the first of them.
UpdatesCountedOnBothKindsOfTopic ==
    /\ returned.op = "update_theta_after_response"
    /\ \E i, j \in 1..Len(responses) :
          /\ responses[i].topic # responses[j].topic
          /\ student.topic_attempt_counts[responses[i].topic]
                > Cardinality(LoggedOn(responses[i].topic))
          /\ student.topic_attempt_counts[responses[j].topic]
                = Cardinality(LoggedOn(responses[j].topic))
          /\ Cardinality(LoggedOn(responses[j].topic)) >= 2

LogReplayGivesAttemptsAndAccuracy ==
    student # NoneDoc =>
        \A t \in DOMAIN student.theta_by_topic :
            /\ student.theta_by_topic[t].attempts = Cardinality(LoggedOn(t))
            /\ LoggedOn(t) # {} =>
                  student.theta_by_topic[t].accuracy
                      = Frac(Cardinality(LoggedCorrectOn(t)), Cardinality(LoggedOn(t)))

\* ------------------------------------------------------------------------
\* SpecSelect: select_optimal_question_IRT over its arguments
\* ------------------------------------------------------------------------
CatalogSelect ==
    << Question("S1", tKinematics, 500,  1500, 250),
       Question("S2", tKinematics, 900,  1200, 250),
       Question("S3", tKinematics, 1600, 1500, 250),
       Question("N1", tNewton,     900,  1500, 250) >>

\* The arguments: a topic with three items, with one, with none; a target
\* theta; the two thresholds generate_daily_quiz passes; any recent list.
SelectTopics == {tKinematics, tNewton, tThermo}
SelectThetas == {0, 900}
SelectDiscriminations == {1000, 1400}

InitSelect ==
    /\ questions = CatalogSelect
    /\ student = NoneDoc
    /\ responses = <<>>
    /\ quiz_doc = NoneDoc
    /\ system_events = 0
    /\ now = 0
    /\ calls = [c \in Calls |-> IdleCall]
    /\ \E topic \in SelectTopics, target_theta \in SelectThetas,
          recent_questions \in SUBSET {CatalogSelect[i].question_id : i \in 1..Len(CatalogSelect)},
          discrimination_min \in SelectDiscriminations :
            returned = [op |-> "input", topic |-> topic, target_theta |-> target_theta,
                        recent_questions |-> recent_questions,
                        discrimination_min |-> discrimination_min]

CallSelect ==
    /\ returned.op = "input"
    /\ returned' = [op |-> "select_optimal_question_IRT",
                    input |-> returned,
                    value |-> select_optimal_question_IRT(returned.topic, returned.target_theta,
                                  returned.recent_questions, returned.discrimination_min)]
    /\ UNCHANGED <<questions, student, responses, quiz_doc, system_events, now, calls>>

NextSelect == CallSelect

SpecSelect == InitSelect /\ [][NextSelect]_vars

\* The items of the call's topic that are not in its recent list.
NonRecentOfTopic ==
    {q \in Range(questions) :
        q.topic = returned.input.topic /\ q.question_id \notin returned.input.recent_questions}

\* C18: select_optimal_question_IRT returns no item only when its topic has
\* no item outside the recent list, and otherwise returns one of the topic's
\* items outside the recent list.
SelectorFallsBackToNonRecent ==
    returned.op = "select_optimal_question_IRT" =>
        IF NonRecentOfTopic = {} THEN returned.value = NoneDoc
        ELSE returned.value \in NonRecentOfTopic

\* The items that pass every filter of the call: of its topic, not in its
\* recent list, of discrimination at least discrimination_min, and of
\* difficulty within OPTIMAL_DIFFICULTY_RANGE of its target theta.
StrictPassers ==
    {q \in NonRecentOfTopic :
        /\ q.discrimination_a >= returned.input.discrimination_min
        /\ Abs(q.difficulty_b - returned.input.target_theta) <= OPTIMAL_DIFFICULTY_RANGE}

\* The items of the call's topic outside its recent list whose difficulty is
\* within OPTIMAL_DIFFICULTY_RANGE of its target theta.
NonRecentInWindow ==
    {q \in NonRecentOfTopic :
        Abs(q.difficulty_b - returned.input.target_theta) <= OPTIMAL_DIFFICULTY_RANGE}

\* C22: when no item passes every filter and an item of the topic outside
\* the recent list has its difficulty within 0.5 of the target theta, the
\* item select_optimal_question_IRT returns has its difficulty within 0.5 of
\* the target theta.
SelectorDropsDiscriminationFirst ==
    (/\ returned.op = "select_optimal_question_IRT"
     /\ StrictPassers = {}
     /\ NonRecentInWindow # {}) =>
        /\ returned.value # NoneDoc
        /\ Abs(returned.value.difficulty_b - returned.input.target_theta)
              <= OPTIMAL_DIFFICULTY_RANGE

\* The Fisher information of an item at the target theta of the call.
InfoAtTarget(q) ==
    calculate_fisher_information(returned.input.target_theta, q.difficulty_b,
                                 q.discrimination_a, q.guessing_c)

ReturnedQuizNeverEmpty ==
    returned.op = "generate_daily_quiz" =>
        (Len(returned.value) >= 1 /\ Len(returned.value) <= 10)

\* ------------------------------------------------------------------------
\* SpecSlots: exploration quizzes at every count, six tested topics
\* ------------------------------------------------------------------------
CatalogSlots ==
    << Question("P1", tKinematics,  1500, 1500, 250),
       Question("P2", tNewton,      1500, 1500, 250),
       Question("P3", tAtoms,       1500, 1500, 250),
       Question("C1", tThermo,      1500, 1500, 250),
       Question("C2", tEquilibrium, 1500, 1500, 250),
       Question("M1", tLimits,      1500, 1500, 250) >>

\* Two correct responses on each of the six items: every topic is tested
\* (attempts 2) with theta 1.5.
SlotsAssessment ==
    AssessmentOf("P1", 2, 2) \o AssessmentOf("P2", 2, 2) \o AssessmentOf("P3", 2, 2)
        \o AssessmentOf("C1", 2, 2) \o AssessmentOf("C2", 2, 2) \o AssessmentOf("M1", 2, 2)

\* The completed_quiz_count arguments: every count of the exploration phase.
SlotsArgs == 0..(EXPLORATION_END_QUIZ - 1)

\* Bound: the stored quiz count.
MaxSlotsQuizzes == 1

InitSlots == InitWith(CatalogSlots)

AssessSlots ==
    /\ student = NoneDoc
    /\ process_initial_assessment(SlotsAssessment)

QuizSlots ==
    /\ student # NoneDoc
    /\ student.completed_quiz_count < MaxSlotsQuizzes
    /\ \E arg \in SlotsArgs : generate_daily_quiz(arg)

NextSlots == AssessSlots \/ QuizSlots

SpecSlots == InitSlots /\ [][NextSlots]_vars

\* floor(10 * max(0.6 - 0.04 q, 0.3)), in exact arithmetic
FloorOfTenTimesRatio(q) == (10 * Max2(600 - 40 * q, 300)) \div 1000

\* C20: for a quiz built at a count q in 0..13, the number of exploration
\* slots is n_exp = floor(10 * max(0.6 - 0.04 q, 0.3)), and the quiz holds at
\* most n_exp exploration items, at most 10 - n_exp - 1 deliberate-practice
\* items and at most 1 review item.
ExplorationSlotCounts ==
    (/\ returned.op = "generate_daily_quiz"
     /\ quiz_doc.learning_phase = "exploration") =>
        LET q == quiz_doc.quiz_number
            n_exp == FloorOfTenTimesRatio(q)
            n_deliberate == 10 - n_exp - 1
        IN  /\ NumExploration(q) = n_exp
            /\ SlotCount("exploration", AllTopics) <= n_exp
            /\ SlotCount("deliberate", AllTopics) <= n_deliberate
            /\ SlotCount("review", AllTopics) <= 1

\* ------------------------------------------------------------------------
\* SpecReview: get_spaced_review_question over logs of responses of all ages
\* ------------------------------------------------------------------------
\* The learner answers X and Z right, and Z wrong.
ReviewAnswers ==
    { [question_id |-> "X", is_correct |-> TRUE],
      [question_id |-> "Z", is_correct |-> TRUE],
      [question_id |-> "Z", is_correct |-> FALSE] }

\* The days that pass in one step: the differences of their sums (2, 5, 7,
\* 14, 30, ...) fall in every interval of get_spaced_review_question.
ReviewDays == {7, 23}

\* The recent lists of the calls.
ReviewRecentLists == SUBSET {"X", "Z"}

\* Bounds: responses logged and the days that pass.
MaxReviewLog == 2
MaxReviewDays == 30

InitReview == InitWith(CatalogSpec)

AssessReview ==
    /\ student = NoneDoc
    /\ process_initial_assessment(AssessmentOf("X", 3, 2))

AnswerReview ==
    /\ Len(responses) < MaxReviewLog
    /\ \E r \in ReviewAnswers : update_theta_after_response(r.question_id, r.is_correct)

PassReview ==
    \E days \in ReviewDays :
        /\ now + days <= MaxReviewDays
        /\ Tick(days)

\* A call get_spaced_review_question(student_id, recent_questions).
CallReview ==
    /\ student # NoneDoc
    /\ \E recent_questions \in ReviewRecentLists :
          \E q \in get_spaced_review_question(recent_questions) :
              returned' = [op |-> "get_spaced_review_question",
                           recent_questions |-> recent_questions, value |-> q]
    /\ UNCHANGED <<questions, student, responses, quiz_doc, system_events, now, calls>>

NextReview == AssessReview \/ AnswerReview \/ PassReview \/ CallReview

SpecReview == InitReview /\ [][NextReview]_vars

\* The tier of a response answered days_since days ago: 5 from 30 days, 4
\* from 14, 3 from 7, 2 from 3, 1 from 1.
ReviewTier(days_since) ==
    CASE days_since >= 30 -> 5
      [] days_since \in 14..29 -> 4
      [] days_since \in 7..13 -> 3
      [] days_since \in 3..6 -> 2
      [] OTHER -> 1

\* The responses the call can review: answered correctly, on an item outside
\* its recent list, at least one day ago.
ReviewCandidates ==
    {i \in 1..Len(responses) :
        /\ responses[i].is_correct
        /\ responses[i].question_id \notin returned.recent_questions
        /\ now - responses[i].answered_at >= 1}

\* (tier, days_since) of response j is at most that of response i.
ReviewLexLeq(j, i) ==
    LET dj == now - responses[j].answered_at
        di == now - responses[i].answered_at
    IN  \/ ReviewTier(dj) < ReviewTier(di)
        \/ ReviewTier(dj) = ReviewTier(di) /\ dj <= di

\* A step that is a call of get_spaced_review_question.
ReviewStep ==
    /\ returned'.op = "get_spaced_review_question"
    /\ UNCHANGED <<responses, now>>

CatalogMaintenance ==
    << Question("P1", tKinematics,  -1000, 1200, 250),
       Question("P2", tNewton,       1500, 1200, 250),
       Question("P3", tAtoms,       -1000, 1200, 250),
       Question("C1", tThermo,       1500, 1200, 250),
       Question("C2", tEquilibrium,  1500, 1200, 250),
       Question("M1", tLimits,       1500, 1200, 250) >>

\* Four topics at theta 1.5, and of kinematics and atoms one at -0.5 and the
\* other at -1.5.
MaintenanceAssessments ==
    { AssessmentOf("P1", 2, k) \o AssessmentOf("P3", 2, 1 - k)
        \o AssessmentOf("P2", 2, 2) \o AssessmentOf("C1", 2, 2)
        \o AssessmentOf("C2", 2, 2) \o AssessmentOf("M1", 2, 2) : k \in {0, 1} }

\* The completed_quiz_count arguments: counts of the exploitation phase.
MaintenanceArgs == EXPLORATION_END_QUIZ..(EXPLORATION_END_QUIZ + 2)

\* Bound: the stored quiz count.
MaxMaintenanceQuizzes == 1

InitMaintenance == InitWith(CatalogMaintenance)

AssessMaintenance ==
    /\ student = NoneDoc
    /\ \E rs \in MaintenanceAssessments : process_initial_assessment(rs)

QuizMaintenance ==
    /\ student # NoneDoc
    /\ student.completed_quiz_count < MaxMaintenanceQuizzes
    /\ \E arg \in MaintenanceArgs : generate_daily_quiz(arg)

NextMaintenance == AssessMaintenance \/ QuizMaintenance

SpecMaintenance == InitMaintenance /\ [][NextMaintenance]_vars

\* The topics with a record that fewer than n topics with a record exceed in
\* theta.
HighestTheta(theta_by_topic, n) ==
    {t \in DOMAIN theta_by_topic :
        Cardinality({u \in DOMAIN theta_by_topic :
                        theta_by_topic[u].theta > theta_by_topic[t].theta}) < n}

MaintenanceTopics == {returned.value[i].topic : i \in {j \in 1..Len(returned.value) : returned.slots[j] = "maintenance"}}

\* C27: in an exploitation quiz, every item of a maintenance slot is on one of
\* the 5 tested topics of highest theta, and at most 2 topics get such a slot.
MaintenanceFromHighestTheta ==
    (/\ returned.op = "generate_daily_quiz"
     /\ LearningPhase(returned.completed_quiz_count) = "exploitation")
    => /\ MaintenanceTopics \subseteq HighestTheta(student.theta_by_topic, 5)
       /\ Cardinality(MaintenanceTopics) <= MAINTENANCE_COUNT_EXPLOITATION


\* ------------------------------------------------------------------------
\* SpecQuizCalls: generate_daily_quiz calls step by step, two at once
\* ------------------------------------------------------------------------
\* Lines 891-905: the call reads the profile, settles the count and checks
\* the circuit breaker.
BeginQuiz(c, arg) ==
    /\ calls[c].pc = "idle"
    /\ student # NoneDoc
    /\ calls' = [calls EXCEPT ![c] =
                    [pc |-> "read", arg |-> arg, student_data |-> student,
                     completed_quiz_count |->
                         IF arg = NoneInt THEN student.completed_quiz_count ELSE arg,
                     recovery |-> check_circuit_breaker]]
    /\ UNCHANGED <<questions, student, responses, quiz_doc, system_events, now, returned>>

\* Lines 930-941: the normal path settles the phase and marks the first
\* exploitation quiz in the stored profile.
MarkPhase(c) ==
    /\ calls[c].pc = "read"
    /\ ~calls[c].recovery
    /\ student' = IF /\ LearningPhase(calls[c].completed_quiz_count) = "exploitation"
                     /\ calls[c].student_data.phase_switched_at_quiz = NoneInt
                  THEN [student EXCEPT !.phase_switched_at_quiz = calls[c].completed_quiz_count]
                  ELSE student
    /\ calls' = [calls EXCEPT ![c].pc = "phased"]
    /\ UNCHANGED <<questions, responses, quiz_doc, system_events, now, returned>>

\* Lines 908 and 695-755: the recovery path builds its quiz and logs the
\* circuit-breaker event.
LogBreakerEvent(c) ==
    /\ calls[c].pc = "read"
    /\ calls[c].recovery
    /\ \E recovery_questions \in RecoveryQuestions(calls[c].student_data) :
          \E interleaved \in interleave_questions_by_topic(Prefix(recovery_questions, 10)) :
              calls' = [calls EXCEPT ![c] = [@ EXCEPT !.pc = "logged"] @@ [quiz |-> interleaved]]
    /\ system_events' = system_events + 1
    /\ UNCHANGED <<questions, student, responses, quiz_doc, now, returned>>

\* Lines 943-1049 and 757-760: the quiz is built (normal path) and its
\* metadata saved; quiz_data is the document the call wrote.
SaveQuiz(c) ==
    /\ calls[c].pc \in {"logged", "phased"}
    /\ IF calls[c].recovery
       THEN /\ calls[c].pc = "logged"
            /\ quiz_doc' = save_quiz_metadata(<<"recovery_quiz", NoneInt, now>>,
                               calls[c].student_data.completed_quiz_count, "recovery",
                               calls[c].quiz)
            /\ calls' = [calls EXCEPT ![c] =
                            [@ EXCEPT !.pc = "saved"] @@ [quiz_data |-> quiz_doc']]
       ELSE /\ calls[c].pc = "phased"
            /\ ~DeliberateKeyError(calls[c].student_data, calls[c].completed_quiz_count)
            /\ \E final_quiz \in NormalQuiz(calls[c].student_data, calls[c].completed_quiz_count) :
                  /\ quiz_doc' = save_quiz_metadata(
                                     <<"quiz_num", calls[c].completed_quiz_count, now>>,
                                     calls[c].completed_quiz_count,
                                     LearningPhase(calls[c].completed_quiz_count), final_quiz)
                  /\ calls' = [calls EXCEPT ![c] =
                                  [@ EXCEPT !.pc = "saved"]
                                      @@ [quiz |-> final_quiz, quiz_data |-> quiz_doc']]
    /\ UNCHANGED <<questions, student, responses, system_events, now, returned>>

\* Lines 911-917 and 1051-1058: the stored count is incremented, the phase
\* and the time written, and the quiz returned.
FinishQuiz(c) ==
    /\ calls[c].pc = "saved"
    /\ student' = IF calls[c].recovery
                  THEN RecoveryProfileUpdate(student)
                  ELSE [student EXCEPT
                           !.completed_quiz_count = @ + 1,
                           !.learning_phase = LearningPhase(calls[c].completed_quiz_count),
                           !.last_quiz_completed_at = now]
    /\ returned' = QuizReturned(calls[c].arg, calls[c].quiz)
    /\ calls' = [calls EXCEPT ![c].pc = "done"]
    /\ UNCHANGED <<questions, responses, quiz_doc, system_events, now>>

\* The call ends before it returns: an exception of a storage call, or a
\* deadline, at any point after its first read.  No handler undoes a write.
AbortQuiz(c) ==
    /\ calls[c].pc \in {"read", "phased", "logged", "saved"}
    /\ calls' = [calls EXCEPT ![c].pc = "aborted"]
    /\ UNCHANGED <<questions, student, responses, quiz_doc, system_events, now, returned>>

InitQuizCalls == InitWith(CatalogSpec)

AssessQuizCalls ==
    /\ student = NoneDoc
    /\ process_initial_assessment(AssessmentOf("X", 3, 2))

\* Wrong answers on Z, logged before the first call starts.
AnswerQuizCalls ==
    /\ Len(responses) < CIRCUIT_BREAKER_THRESHOLD
    /\ \A c \in Calls : calls[c].pc = "idle"
    /\ update_theta_after_response("Z", FALSE)

NextQuizCalls ==
    \/ AssessQuizCalls
    \/ AnswerQuizCalls
    \/ \E c \in Calls, arg \in QuizArgs : BeginQuiz(c, arg)
    \/ \E c \in Calls : MarkPhase(c)
    \/ \E c \in Calls : LogBreakerEvent(c)
    \/ \E c \in Calls : SaveQuiz(c)
    \/ \E c \in Calls : FinishQuiz(c)
    \/ \E c \in Calls : AbortQuiz(c)

SpecQuizCalls == InitQuizCalls /\ [][NextQuizCalls]_vars

\* C29: when two generate_daily_quiz calls that read the count from the
\* profile have both returned, whatever the interleaving of their steps, the
\* stored completed_quiz_count has grown by 2 (from the 0 of the assessment)
\* and the two documents they saved carry different quiz numbers.
ConcurrentQuizzesCountedAndNumbered ==
    (\A c \in Calls : calls[c].pc = "done" /\ calls[c].arg = NoneInt)
    => /\ student.completed_quiz_count = 2
       /\ \A c, d \in Calls :
             c # d => calls[c].quiz_data.quiz_number # calls[d].quiz_data.quiz_number

\* C30: when a generate_daily_quiz call was aborted before it returned, no
\* call is under way and no call has incremented completed_quiz_count, the
\* stores are as the assessment left them: no quiz metadata, no
\* phase_switched_at_quiz, the learning_phase unchanged, no circuit-breaker
\* event.
AbortLeavesStoresUnchanged ==
    (/\ \E c \in Calls : calls[c].pc = "aborted"
     /\ \A c \in Calls : calls[c].pc \in {"idle", "aborted"}
     /\ student.completed_quiz_count = 0)
    => /\ quiz_doc = NoneDoc
       /\ student.phase_switched_at_quiz = NoneInt
       /\ student.learning_phase = "exploration"
       /\ system_events = 0


\* ------------------------------------------------------------------------
\* SpecWindow: quizzes for a learner with responses of every age
\* ------------------------------------------------------------------------
\* The days that pass at once, and the bound on the days that pass in all:
\* a response can be 0, 14, 28, 31, 42 or 45 days old.
WindowDays == {14, 31}
MaxWindowDays == 45

\* Bound: the stored quiz count.
MaxWindowQuizzes == 1

PassWindow ==
    \E days \in WindowDays :
        /\ now + days <= MaxWindowDays
        /\ Tick(days)

QuizWindow ==
    /\ student # NoneDoc
    /\ student.completed_quiz_count < MaxWindowQuizzes
    /\ generate_daily_quiz(NoneInt)

\* The learner is assessed on day 0.
AssessWindow ==
    /\ now = 0
    /\ AssessReview

NextWindow == AssessWindow \/ AnswerReview \/ PassWindow \/ QuizWindow

SpecWindow == InitReview /\ [][NextWindow]_vars

\* The items a quiz holds in its review slots, as question ids.
ReviewSlotItems(quiz) ==
    {quiz.value[i].question_id : i \in {j \in DOMAIN quiz.slots : quiz.slots[j] = "review"}}

QuizProfileCount ==
    /\ student # NoneDoc
    /\ student.completed_quiz_count < MaxPhaseQuizzes
    /\ generate_daily_quiz(NoneInt)

NextProfileCount == AssessPhase \/ AnswerPhase \/ QuizProfileCount

SpecProfileCount == InitPhase /\ [][NextProfileCount]_vars

\* C35: for a learner assessed once whose quizzes are all generated at the
\* stored count, once the quiz last stored is an exploitation quiz no quiz
\* stored from then on is an exploration quiz: each is an exploitation or a
\* recovery quiz.
NoExplorationAfterExploitation ==
    []((quiz_doc # NoneDoc /\ quiz_doc.learning_phase = "exploitation")
          => [](quiz_doc # NoneDoc /\ quiz_doc.learning_phase \in {"exploitation", "recovery"}))

\* The quiz of count 15 was generated after the first exploitation quiz, the
\* one of count 14, and is an exploitation quiz too.
SecondExploitationQuizStored ==
    /\ student # NoneDoc
    /\ student.phase_switched_at_quiz = EXPLORATION_END_QUIZ
    /\ student.completed_quiz_count = EXPLORATION_END_QUIZ + 2
    /\ quiz_doc.learning_phase = "exploitation"
    /\ quiz_doc.quiz_number = EXPLORATION_END_QUIZ + 1


====
